---- MODULE Spec2Model ----
(***************************************************************************)
(* A model of the object-storage facade (controller.py) and its two        *)
(* backend adapters (connections/minio.py, connections/aws.py).            *)
(*                                                                         *)
(* Python str values are sequences of code points, bytes values are        *)
(* sequences of 0..255.  Every function of the source is an operator that  *)
(* takes the world w (both backends' storage, the local files, the         *)
(* environment and the cached clients) and yields a record                 *)
(*     [w |-> the world afterwards, exc |-> the exception raised or        *)
(*      NoExc, val |-> the value returned].                                *)
(***************************************************************************)
EXTENDS Integers, Sequences, FiniteSets, TLC

VARIABLES
  minio,         \* self-hosted storage: bucket name -> (object name -> bytes)
  aws,           \* cloud storage:       bucket name -> (object name -> bytes)
  files,         \* local file system:   path -> bytes
  env,           \* os.environ: the variables that are set, each with its value
  minio_client,  \* connections/minio.py __client: 0 is None, k > 0 the k-th instance
  aws_client,    \* connections/aws.py   __client: 0 is None, k > 0 the k-th instance
  made,          \* how many provider clients each adapter has constructed
  call,          \* the last facade call: its name, arguments, outcome
  pre,           \* the storage and files as they were when that call began
  threads,       \* each thread's place in an adapter's __get_client, and what it holds
  raced          \* per adapter: a call began while another was inside and __client was None

vars == <<minio, aws, files, env, minio_client, aws_client, made, call, pre,
          threads, raced>>

----------------------------------------------------------------------------
(* Strings *)

Digits == <<"0", "1", "2", "3", "4", "5", "6", "7", "8", "9">>
Upper ==
  <<"A", "B", "C", "D", "E", "F", "G", "H", "I", "J", "K", "L", "M",
    "N", "O", "P", "Q", "R", "S", "T", "U", "V", "W", "X", "Y", "Z">>
Lower ==
  <<"a", "b", "c", "d", "e", "f", "g", "h", "i", "j", "k", "l", "m",
    "n", "o", "p", "q", "r", "s", "t", "u", "v", "w", "x", "y", "z">>

\* the position of c in the tuple t, or 0
IndexOf(t, c) ==
  IF \E i \in 1..Len(t) : t[i] = c THEN CHOOSE i \in 1..Len(t) : t[i] = c ELSE 0

\* ord(c) of the ASCII characters the model writes strings with
Ord(c) ==
  IF IndexOf(Digits, c) > 0 THEN 47 + IndexOf(Digits, c)
  ELSE IF IndexOf(Upper, c) > 0 THEN 64 + IndexOf(Upper, c)
  ELSE IF IndexOf(Lower, c) > 0 THEN 96 + IndexOf(Lower, c)
  ELSE CASE c = "&" -> 38
         [] c = "-" -> 45
         [] c = "." -> 46
         [] c = "/" -> 47
         [] c = ":" -> 58
         [] c = "=" -> 61
         [] c = "?" -> 63
         [] c = "_" -> 95
         [] c = "{" -> 123
         [] c = "}" -> 125

\* the str whose characters are the entries of the tuple t
Str(t) == [i \in 1..Len(t) |-> Ord(t[i])]

\* a < b on str (and on bytes): lexicographic by code point
RECURSIVE StrLess(_, _)
StrLess(a, b) ==
  IF b = <<>> THEN FALSE
  ELSE IF a = <<>> THEN TRUE
  ELSE IF Head(a) # Head(b) THEN Head(a) < Head(b)
  ELSE StrLess(Tail(a), Tail(b))

\* the elements of a finite set of str in ascending order
RECURSIVE Sorted(_)
Sorted(S) ==
  IF S = {} THEN <<>>
  ELSE LET m == CHOOSE x \in S : \A y \in S \ {x} : StrLess(x, y)
       IN <<m>> \o Sorted(S \ {m})

\* s.startswith(p)
StartsWith(s, p) == Len(p) <= Len(s) /\ SubSeq(s, 1, Len(p)) = p

\* sep.join(parts)
RECURSIVE Join(_, _)
Join(sep, parts) ==
  IF parts = <<>> THEN <<>>
  ELSE IF Len(parts) = 1 THEN parts[1]
  ELSE parts[1] \o sep \o Join(sep, Tail(parts))

----------------------------------------------------------------------------
(* Python values and outcomes *)

NoExc == "none"

VNone ==
  [kind |-> "None", b |-> FALSE, s |-> <<>>, keys |-> <<>>, policy |-> <<>>, cred |-> <<>>]
VBool(x) ==
  [kind |-> "bool", b |-> x, s |-> <<>>, keys |-> <<>>, policy |-> <<>>, cred |-> <<>>]
VStr(x) ==
  [kind |-> "str", b |-> FALSE, s |-> x, keys |-> <<>>, policy |-> <<>>, cred |-> <<>>]
VBytes(x) ==
  [kind |-> "bytes", b |-> FALSE, s |-> x, keys |-> <<>>, policy |-> <<>>, cred |-> <<>>]
\* a dict, by its keys in iteration order
VDict(ks) ==
  [kind |-> "dict", b |-> FALSE, s |-> <<>>, keys |-> ks, policy |-> <<>>, cred |-> <<>>]

\* the response of assume_role, by its keys, by the keys of the dict under
\* "Credentials" in it, and by the policy those credentials are bound to: a sequence
\* of statements, each allowing the actions Action (a set of action names) on the
\* resources Resource (a set of ARNs)
VGrant(ks, cred, p) ==
  [kind |-> "dict", b |-> FALSE, s |-> <<>>, keys |-> ks, policy |-> p, cred |-> cred]

VTrue == VBool(TRUE)
VFalse == VBool(FALSE)

\* bool(v)
Truthy(v) ==
  CASE v.kind = "None" -> FALSE
    [] v.kind = "bool" -> v.b
    [] v.kind = "dict" -> v.keys # <<>>
    [] OTHER -> v.s # <<>>

SLASH == Str(<<"/">>)
TMPFILE == Str(<<"t", "m", "p", "f", "i", "l", "e", ".">>)
DOCBIN_FULL == Str(<<"d", "o", "c", "b", "i", "n", "_", "f", "u", "l", "l">>)

ARN_S3 == Str(<<"a", "r", "n", ":", "a", "w", "s", ":", "s", "3", ":", ":", ":">>)
ASSUMED_ROLE_USER ==
  Str(<<"A", "s", "s", "u", "m", "e", "d", "R", "o", "l", "e", "U", "s", "e", "r">>)
CREDENTIALS == Str(<<"C", "r", "e", "d", "e", "n", "t", "i", "a", "l", "s">>)
OBJECT_NAME == Str(<<"o", "b", "j", "e", "c", "t", "N", "a", "m", "e">>)
BUCKET == Str(<<"b", "u", "c", "k", "e", "t">>)
UPLOAD_TASK_ID == Str(<<"u", "p", "l", "o", "a", "d", "T", "a", "s", "k", "I", "d">>)
ACCESS_KEY_ID == Str(<<"A", "c", "c", "e", "s", "s", "K", "e", "y", "I", "d">>)
SECRET_ACCESS_KEY ==
  Str(<<"S", "e", "c", "r", "e", "t", "A", "c", "c", "e", "s", "s", "K", "e", "y">>)
SESSION_TOKEN == Str(<<"S", "e", "s", "s", "i", "o", "n", "T", "o", "k", "e", "n">>)
EXPIRATION == Str(<<"E", "x", "p", "i", "r", "a", "t", "i", "o", "n">>)
ESSENTIAL_CREDENTIAL_KEYS == {BUCKET, CREDENTIALS, UPLOAD_TASK_ID}
HTTP == Str(<<"h", "t", "t", "p", ":", "/", "/">>)
HTTPS == Str(<<"h", "t", "t", "p", "s", ":", "/", "/">>)
X_METHOD == Str(<<"?", "X", "-", "M", "e", "t", "h", "o", "d", "=">>)
X_EXPIRES == Str(<<"&", "X", "-", "E", "x", "p", "i", "r", "e", "s", "=">>)
GET == Str(<<"G", "E", "T">>)
POST == Str(<<"P", "O", "S", "T">>)
PUT == Str(<<"P", "U", "T">>)
ONE_HOUR == Str(<<"3", "6", "0", "0">>)
TWELVE_HOURS == Str(<<"4", "3", "2", "0", "0">>)

Ok(w, v) == [w |-> w, exc |-> NoExc, val |-> v]
Raise(w, e) == [w |-> w, exc |-> e, val |-> VNone]

\* r, and if r raised nothing, what follows it
Then(r, F(_)) == IF r.exc # NoExc THEN r ELSE F(r)

----------------------------------------------------------------------------
(* UTF-8 *)

IsSurrogate(cp) == cp >= 55296 /\ cp <= 57343

EncodeCodePoint(cp) ==
  IF cp < 128 THEN <<cp>>
  ELSE IF cp < 2048 THEN <<192 + (cp \div 64), 128 + (cp % 64)>>
  ELSE IF cp < 65536
    THEN <<224 + (cp \div 4096), 128 + ((cp \div 64) % 64), 128 + (cp % 64)>>
  ELSE <<240 + (cp \div 262144), 128 + ((cp \div 4096) % 64),
         128 + ((cp \div 64) % 64), 128 + (cp % 64)>>

RECURSIVE EncodeAll(_)
EncodeAll(s) == IF s = <<>> THEN <<>> ELSE EncodeCodePoint(Head(s)) \o EncodeAll(Tail(s))

\* data.encode("UTF-8"): a lone surrogate cannot be encoded
str_encode(w, data) ==
  IF \E i \in 1..Len(data) : IsSurrogate(data[i])
  THEN Raise(w, "UnicodeEncodeError")
  ELSE Ok(w, VBytes(EncodeAll(data)))

IsCont(x) == x >= 128 /\ x <= 191

\* how many bytes the sequence starting with lead byte x takes; 0 if x leads nothing
SeqLen(x) ==
  IF x < 128 THEN 1
  ELSE IF x >= 194 /\ x <= 223 THEN 2
  ELSE IF x >= 224 /\ x <= 239 THEN 3
  ELSE IF x >= 240 /\ x <= 244 THEN 4
  ELSE 0

\* the code point of the well-formed sequence b[1..n], or -1
DecodeOne(b, n) ==
  IF n = 0 \/ Len(b) < n THEN -1
  ELSE IF n = 1 THEN b[1]
  ELSE IF \E i \in 2..n : ~IsCont(b[i]) THEN -1
  ELSE IF n = 2 THEN (b[1] - 192) * 64 + (b[2] - 128)
  ELSE IF n = 3
    THEN LET cp == (b[1] - 224) * 4096 + (b[2] - 128) * 64 + (b[3] - 128)
         IN IF cp < 2048 \/ IsSurrogate(cp) THEN -1 ELSE cp
  ELSE LET cp == (b[1] - 240) * 262144 + (b[2] - 128) * 4096
                   + (b[3] - 128) * 64 + (b[4] - 128)
       IN IF cp < 65536 \/ cp > 1114111 THEN -1 ELSE cp

\* the code points of b, or <<-1>> if b is not well-formed UTF-8
RECURSIVE DecodeAll(_)
DecodeAll(b) ==
  IF b = <<>> THEN <<>>
  ELSE LET n == SeqLen(Head(b))
           cp == DecodeOne(b, n)
       IN IF cp = -1 THEN <<-1>>
          ELSE LET rest == DecodeAll(SubSeq(b, n + 1, Len(b)))
               IN IF rest = <<-1>> THEN rest ELSE <<cp>> \o rest

\* b.decode("UTF-8")
bytes_decode(w, b) ==
  LET s == DecodeAll(b)
  IN IF s = <<-1>> THEN Raise(w, "UnicodeDecodeError") ELSE Ok(w, VStr(s))

----------------------------------------------------------------------------
(* The environment and the local file system *)

\* os.getenv(name)
getenv(w, name) == IF name \in DOMAIN w.env THEN VStr(w.env[name]) ELSE VNone

\* os.path.exists(path)
path_exists(w, path) == path \in DOMAIN w.files

\* os.remove(path)
os_remove(w, path) ==
  IF path \notin DOMAIN w.files THEN Raise(w, "FileNotFoundError")
  ELSE Ok([w EXCEPT !.files = [p \in DOMAIN w.files \ {path} |-> w.files[p]]], VNone)

\* the file at path written with the bytes b
WriteFile(fs, path, b) ==
  [p \in DOMAIN fs \cup {path} |-> IF p = path THEN b ELSE fs[p]]

----------------------------------------------------------------------------
(* The provider client (class Minio of the minio package), which both      *)
(* adapters call.  t is "minio" or "aws": the server the client talks to.  *)

S3NoSuchKey == "S3Error code: NoSuchKey"
S3NoSuchBucket == "S3Error code: NoSuchBucket"
S3BucketNotEmpty == "S3Error code: BucketNotEmpty"
S3BucketAlreadyOwnedByYou == "S3Error code: BucketAlreadyOwnedByYou"

\* the bucket map without the bucket b
WithoutBucket(s, b) == [x \in DOMAIN s \ {b} |-> s[x]]

\* the object map o with the object n holding the bytes c
WithObject(o, n, c) == [x \in DOMAIN o \cup {n} |-> IF x = n THEN c ELSE o[x]]

\* the object map o without the object n
WithoutObject(o, n) == [x \in DOMAIN o \ {n} |-> o[x]]

\* what a call runs under when it is not followed request by request
NoSched == [on |-> FALSE, crash_at |-> -1, switch_at |-> -1, switch_to |-> VNone]

Interrupted == "Interrupted"

\* os.environ with S3_TARGET set to v, or unset when v is None
WithTarget(e, v) ==
  IF v.kind = "None" THEN [n \in DOMAIN e \ {"S3_TARGET"} |-> e[n]]
  ELSE [n \in DOMAIN e \cup {"S3_TARGET"} |-> IF n = "S3_TARGET" THEN v.s ELSE e[n]]

\* One request of the client to the server t, answered as r says.  Where the call is
\* followed request by request (w.sched.on), the request is written to w.trace; the
\* run is cut off in place of the request that would follow the first
\* w.sched.crash_at ones; and once w.sched.switch_at requests are made, S3_TARGET
\* is set anew, by another thread, to w.sched.switch_to.
Request(w, t, req, bucket, name, r) ==
  IF ~w.sched.on THEN r
  ELSE IF Len(w.trace) = w.sched.crash_at THEN Raise(w, Interrupted)
  ELSE [r EXCEPT !.w.trace = Append(w.trace, [t |-> t, req |-> req, bucket |-> bucket,
                                               name |-> name]),
                 !.w.env = IF Len(w.trace) + 1 = w.sched.switch_at
                           THEN WithTarget(w.env, w.sched.switch_to)
                           ELSE w.env]

Minio_bucket_exists(w, t, bucket) ==
  Request(w, t, "bucket_exists", bucket, <<>>, Ok(w, VBool(bucket \in DOMAIN w[t])))

Minio_make_bucket(w, t, bucket) ==
  Request(w, t, "make_bucket", bucket, <<>>,
    IF bucket \in DOMAIN w[t] THEN Raise(w, S3BucketAlreadyOwnedByYou)
    ELSE Ok([w EXCEPT ![t] = [x \in DOMAIN w[t] \cup {bucket} |->
                                IF x = bucket THEN <<>> ELSE w[t][x]]], VNone))

\* set_bucket_notification(bucket, config): changes no bucket and no object
Minio_set_bucket_notification(w, t, bucket) ==
  Request(w, t, "set_bucket_notification", bucket, <<>>,
    IF bucket \notin DOMAIN w[t] THEN Raise(w, S3NoSuchBucket) ELSE Ok(w, VNone))

\* get_presigned_url(method, bucket, object_name, expires=...) of the client that
\* talks to t: the URL is signed locally, no request is sent; secure tells http from
\* https.  presigned_put_object is get_presigned_url("PUT", ...).
Minio_get_presigned_url(w, t, secure, method, bucket, object_name, expires) ==
  Ok(w, VStr((IF secure THEN HTTPS ELSE HTTP)
             \o w.env[IF t = "minio" THEN "S3_ENDPOINT_LOCAL" ELSE "S3_AWS_ENDPOINT"]
             \o SLASH \o bucket \o SLASH \o object_name
             \o X_METHOD \o method \o X_EXPIRES \o expires))

Minio_remove_bucket(w, t, bucket) ==
  Request(w, t, "remove_bucket", bucket, <<>>,
    IF bucket \notin DOMAIN w[t] THEN Raise(w, S3NoSuchBucket)
    ELSE IF DOMAIN w[t][bucket] # {} THEN Raise(w, S3BucketNotEmpty)
    ELSE Ok([w EXCEPT ![t] = WithoutBucket(w[t], bucket)], VNone))

Minio_list_buckets(w, t) ==
  Request(w, t, "list_buckets", <<>>, <<>>, Ok(w, VDict(Sorted(DOMAIN w[t]))))

\* list_objects(bucket, prefix=prefix, recursive=True): prefix is None or a str
Minio_list_objects(w, t, bucket, prefix) ==
  Request(w, t, "list_objects", bucket, <<>>,
    IF bucket \notin DOMAIN w[t] THEN Raise(w, S3NoSuchBucket)
    ELSE Ok(w, VDict(Sorted({n \in DOMAIN w[t][bucket] :
                               prefix.kind = "None" \/ StartsWith(n, prefix.s)}))))

Minio_stat_object(w, t, bucket, object_name) ==
  Request(w, t, "stat_object", bucket, object_name,
    IF bucket \notin DOMAIN w[t] THEN Raise(w, S3NoSuchBucket)
    ELSE IF object_name \notin DOMAIN w[t][bucket] THEN Raise(w, S3NoSuchKey)
    ELSE Ok(w, VNone))

\* put_object: the object is written whole, whatever it held
Minio_put_object(w, t, bucket, object_name, b) ==
  Request(w, t, "put_object", bucket, object_name,
    IF bucket \notin DOMAIN w[t] THEN Raise(w, S3NoSuchBucket)
    ELSE Ok([w EXCEPT ![t][bucket] = WithObject(w[t][bucket], object_name, b)], VNone))

\* get_object(...).data
Minio_get_object(w, t, bucket, object_name) ==
  Request(w, t, "get_object", bucket, object_name,
    IF bucket \notin DOMAIN w[t] THEN Raise(w, S3NoSuchBucket)
    ELSE IF object_name \notin DOMAIN w[t][bucket] THEN Raise(w, S3NoSuchKey)
    ELSE Ok(w, VBytes(w[t][bucket][object_name])))

\* fget_object: the object's bytes are written to the local file
Minio_fget_object(w, t, bucket, object_name, file_path) ==
  Request(w, t, "fget_object", bucket, object_name,
    IF bucket \notin DOMAIN w[t] THEN Raise(w, S3NoSuchBucket)
    ELSE IF object_name \notin DOMAIN w[t][bucket] THEN Raise(w, S3NoSuchKey)
    ELSE Ok([w EXCEPT !.files = WriteFile(w.files, file_path, w[t][bucket][object_name])],
            VNone))

\* fput_object: the local file is read, then the object is written whole
Minio_fput_object(w, t, bucket, object_name, file_path) ==
  IF file_path \notin DOMAIN w.files THEN Raise(w, "FileNotFoundError")
  ELSE Request(w, t, "fput_object", bucket, object_name,
         IF bucket \notin DOMAIN w[t] THEN Raise(w, S3NoSuchBucket)
         ELSE Ok([w EXCEPT ![t][bucket] =
                    WithObject(w[t][bucket], object_name, w.files[file_path])], VNone))

\* removing an object that is not there succeeds
Minio_remove_object(w, t, bucket, object_name) ==
  Request(w, t, "remove_object", bucket, object_name,
    IF bucket \notin DOMAIN w[t] THEN Raise(w, S3NoSuchBucket)
    ELSE Ok([w EXCEPT ![t][bucket] = WithoutObject(w[t][bucket], object_name)], VNone))

\* copy_object(target_bucket, target_object, CopySource(source_bucket, source_object))
Minio_copy_object(w, t, target_bucket, target_object, source_bucket, source_object) ==
  Request(w, t, "copy_object", target_bucket, target_object,
    IF source_bucket \notin DOMAIN w[t] THEN Raise(w, S3NoSuchBucket)
    ELSE IF source_object \notin DOMAIN w[t][source_bucket] THEN Raise(w, S3NoSuchKey)
    ELSE IF target_bucket \notin DOMAIN w[t] THEN Raise(w, S3NoSuchBucket)
    ELSE Ok([w EXCEPT ![t][target_bucket] =
               WithObject(w[t][target_bucket], target_object,
                          w[t][source_bucket][source_object])], VNone))

----------------------------------------------------------------------------
(* connections/minio.py: the self-hosted adapter *)

minio_get_client(w) ==
  LET w1 == IF w.minio_client = 0
               /\ Truthy(getenv(w, "S3_ENDPOINT_LOCAL"))
               /\ Truthy(getenv(w, "S3_ACCESS_KEY"))
               /\ Truthy(getenv(w, "S3_SECRET_KEY"))
            THEN [w EXCEPT !.minio_client = w.made.minio + 1,
                           !.made.minio = w.made.minio + 1]
            ELSE w
  IN IF w1.minio_client = 0 THEN Raise(w1, "Exception: S3 not connected")
     ELSE Ok(w1, VNone)

minio_bucket_exists(w, bucket) ==
  Then(minio_get_client(w), LAMBDA r : Minio_bucket_exists(r.w, "minio", bucket))

\* minio_create_bucket, were it to answer True without making the bucket
minio_create_bucket_unmade(w, bucket) ==
  Then(minio_get_client(w), LAMBDA r0 : Ok(r0.w, VTrue))

minio_create_bucket(w, bucket) ==
  Then(minio_get_client(w), LAMBDA r0 :
  Then(Minio_make_bucket(r0.w, "minio", bucket), LAMBDA r1 :
  Then(Minio_set_bucket_notification(r1.w, "minio", bucket), LAMBDA r2 :
    Ok(r2.w, VTrue))))

minio_object_exists(w, bucket, object_name) ==
  Then(minio_get_client(w), LAMBDA r0 :
    LET r1 == Minio_stat_object(r0.w, "minio", bucket, object_name)
    IN IF r1.exc = NoExc THEN Ok(r1.w, VTrue)
       ELSE IF r1.exc # S3NoSuchKey THEN r1
       ELSE Ok(r1.w, VFalse))

\* minio_put_object, were it to leave an object that is already stored as it is
minio_put_object_keeping(w, bucket, object_name, data) ==
  Then(minio_get_client(w), LAMBDA r0 :
  Then(minio_bucket_exists(r0.w, bucket), LAMBDA r1 :
  Then(IF ~Truthy(r1.val) THEN minio_create_bucket(r1.w, bucket) ELSE r1, LAMBDA r2 :
  Then(str_encode(r2.w, data), LAMBDA r3 :
    IF object_name \in DOMAIN r3.w.minio[bucket] THEN Ok(r3.w, VTrue)
    ELSE
  Then(Minio_put_object(r3.w, "minio", bucket, object_name, r3.val.s), LAMBDA r4 :
    Ok(r4.w, VTrue))))))

minio_put_object(w, bucket, object_name, data) ==
  Then(minio_get_client(w), LAMBDA r0 :
  Then(minio_bucket_exists(r0.w, bucket), LAMBDA r1 :
  Then(IF ~Truthy(r1.val) THEN minio_create_bucket(r1.w, bucket) ELSE r1, LAMBDA r2 :
  Then(str_encode(r2.w, data), LAMBDA r3 :
  Then(Minio_put_object(r3.w, "minio", bucket, object_name, r3.val.s), LAMBDA r4 :
    Ok(r4.w, VTrue))))))

minio_get_object(w, bucket, object_name) ==
  Then(minio_get_client(w), LAMBDA r0 :
  Then(minio_bucket_exists(r0.w, bucket), LAMBDA r1 :
    IF ~Truthy(r1.val) THEN Ok(r1.w, VStr(<<>>))
    ELSE Then(Minio_get_object(r1.w, "minio", bucket, object_name), LAMBDA r2 :
           bytes_decode(r2.w, r2.val.s))))

\* file_name is None or a str
minio_download_object(w, bucket, object_name, file_type, file_name) ==
  Then(minio_get_client(w), LAMBDA r0 :
  Then(minio_bucket_exists(r0.w, bucket), LAMBDA r1 :
    IF ~Truthy(r1.val) THEN Ok(r1.w, VStr(<<>>))
    ELSE LET name == IF ~Truthy(file_name) THEN TMPFILE \o file_type
                     ELSE file_name.s
         IN Then(IF path_exists(r1.w, name) THEN os_remove(r1.w, name) ELSE r1, LAMBDA r2 :
            Then(Minio_fget_object(r2.w, "minio", bucket, object_name, name), LAMBDA r3 :
              Ok(r3.w, VStr(name))))))

minio_delete_object(w, bucket, object_name) ==
  Then(minio_object_exists(w, bucket, object_name), LAMBDA r0 :
    IF ~Truthy(r0.val) THEN Ok(r0.w, VFalse)
    ELSE Then(minio_get_client(r0.w), LAMBDA r1 :
         Then(Minio_remove_object(r1.w, "minio", bucket, object_name), LAMBDA r2 :
           Ok(r2.w, VTrue))))

\* minio_upload_object, were it with force to put over the object without deleting it
minio_upload_object_over(w, bucket, object_name, file_path, force) ==
  Then(minio_get_client(w), LAMBDA r0 :
  Then(minio_bucket_exists(r0.w, bucket), LAMBDA r1 :
    IF ~Truthy(r1.val) THEN Ok(r1.w, VFalse)
    ELSE
  Then(minio_object_exists(r1.w, bucket, object_name), LAMBDA r2 :
  Then(IF Truthy(r2.val) /\ ~force THEN Raise(r2.w, "ValueError") ELSE r2, LAMBDA r3 :
    IF ~path_exists(r3.w, file_path) THEN Ok(r3.w, VFalse)
    ELSE Then(Minio_fput_object(r3.w, "minio", bucket, object_name, file_path), LAMBDA r4 :
           Ok(r4.w, VTrue))))))

minio_upload_object(w, bucket, object_name, file_path, force) ==
  Then(minio_get_client(w), LAMBDA r0 :
  Then(minio_bucket_exists(r0.w, bucket), LAMBDA r1 :
    IF ~Truthy(r1.val) THEN Ok(r1.w, VFalse)
    ELSE
  Then(minio_object_exists(r1.w, bucket, object_name), LAMBDA r2 :
  Then(IF Truthy(r2.val)
       THEN IF force THEN minio_delete_object(r2.w, bucket, object_name)
            ELSE Raise(r2.w, "ValueError")
       ELSE r2, LAMBDA r3 :
    IF ~path_exists(r3.w, file_path) THEN Ok(r3.w, VFalse)
    ELSE Then(Minio_fput_object(r3.w, "minio", bucket, object_name, file_path), LAMBDA r4 :
           Ok(r4.w, VTrue))))))

minio_get_all_buckets(w) ==
  Then(minio_get_client(w), LAMBDA r : Minio_list_buckets(r.w, "minio"))

minio_copy_object(w, source_bucket, source_object, target_bucket, target_object) ==
  Then(minio_get_client(w), LAMBDA r0 :
  Then(Minio_copy_object(r0.w, "minio", target_bucket, target_object,
                         source_bucket, source_object), LAMBDA r1 :
    Ok(r1.w, VTrue)))

\* minio_get_bucket_objects, were it to list the bucket's objects whatever the prefix
minio_get_bucket_objects_whole(w, bucket, prefix) ==
  Then(minio_get_client(w), LAMBDA r : Minio_list_objects(r.w, "minio", bucket, VNone))

\* prefix is None or a str
minio_get_bucket_objects(w, bucket, prefix) ==
  Then(minio_get_client(w), LAMBDA r : Minio_list_objects(r.w, "minio", bucket, prefix))

\* sts_client.assume_role(..., Policy=json.dumps(policy)): the credentials are issued
sts_assume_role(w, policy) ==
  Ok(w, VGrant(<<ASSUMED_ROLE_USER, CREDENTIALS>>,
               <<ACCESS_KEY_ID, SECRET_ACCESS_KEY, SESSION_TOKEN, EXPIRATION>>, policy))

minio_get_download_credentials(w, bucket, object) ==
  Then(minio_bucket_exists(w, bucket), LAMBDA r0 :
  Then(IF ~Truthy(r0.val) THEN minio_create_bucket(r0.w, bucket) ELSE r0, LAMBDA r1 :
    sts_assume_role(r1.w,
      <<[Action |-> {"s3:GetObject"},
         Resource |-> {ARN_S3 \o bucket \o SLASH \o object}]>>)))

minio_create_access_link(w, bucket, object_name) ==
  Then(minio_get_client(w), LAMBDA r0 :
  Then(minio_object_exists(r0.w, bucket, object_name), LAMBDA r1 :
    IF ~Truthy(r1.val) THEN Raise(r1.w, "FileNotFoundError")
    ELSE Minio_get_presigned_url(r1.w, "minio", FALSE, GET, bucket, object_name, ONE_HOUR)))

minio_create_data_upload_link(w, bucket, object_name) ==
  Then(minio_get_client(w), LAMBDA r0 :
  Then(minio_bucket_exists(r0.w, bucket), LAMBDA r1 :
  Then(IF ~Truthy(r1.val) THEN minio_create_bucket(r1.w, bucket) ELSE r1, LAMBDA r2 :
    Minio_get_presigned_url(r2.w, "minio", FALSE, POST, bucket, object_name,
                            TWELVE_HOURS))))

minio_create_file_upload_link(w, bucket, object_name) ==
  Then(minio_get_client(w), LAMBDA r0 :
  Then(minio_bucket_exists(r0.w, bucket), LAMBDA r1 :
  Then(IF ~Truthy(r1.val) THEN minio_create_bucket(r1.w, bucket) ELSE r1, LAMBDA r2 :
    Minio_get_presigned_url(r2.w, "minio", FALSE, PUT, bucket, object_name,
                            TWELVE_HOURS))))

minio_get_upload_credentials_and_id(w, target_bucket) ==
  Then(minio_bucket_exists(w, target_bucket), LAMBDA r0 :
  Then(IF ~Truthy(r0.val) THEN minio_create_bucket(r0.w, target_bucket) ELSE r0,
       LAMBDA r1 :
    sts_assume_role(r1.w,
      <<[Action |-> {"s3:PutObject"},
         Resource |-> {ARN_S3 \o target_bucket \o SLASH \o <<42>>}]>>)))

\* the endpoint is where the sts client is sent to, nothing else
minio_get_upload_credentials_and_id_with_endpoint(w, target_bucket, endpoint) ==
  Then(minio_bucket_exists(w, target_bucket), LAMBDA r0 :
  Then(IF ~Truthy(r0.val) THEN minio_create_bucket(r0.w, target_bucket) ELSE r0,
       LAMBDA r1 :
    sts_assume_role(r1.w,
      <<[Action |-> {"s3:PutObject"},
         Resource |-> {ARN_S3 \o target_bucket \o SLASH \o <<42>>}]>>)))

minio_remove_bucket(w, bucket) ==
  Then(minio_get_client(w), LAMBDA r0 :
  Then(Minio_remove_bucket(r0.w, "minio", bucket), LAMBDA r1 :
    Ok(r1.w, VTrue)))

----------------------------------------------------------------------------
(* connections/aws.py: the cloud adapter *)

aws_init_client(w, force) ==
  IF w.aws_client # 0 /\ ~force THEN w
  ELSE IF Truthy(getenv(w, "S3_AWS_ENDPOINT"))
          /\ Truthy(getenv(w, "S3_AWS_REGION"))
          /\ Truthy(getenv(w, "S3_AWS_ACCESS_KEY"))
          /\ Truthy(getenv(w, "S3_AWS_SECRET_KEY"))
       THEN [w EXCEPT !.aws_client = w.made.aws + 1, !.made.aws = w.made.aws + 1]
       ELSE w

aws_get_client(w) ==
  LET w1 == IF w.aws_client = 0 THEN aws_init_client(w, FALSE) ELSE w
  IN IF w1.aws_client = 0 THEN Raise(w1, "Exception: S3 not connected")
     ELSE Ok(w1, VNone)

aws_bucket_exists(w, bucket) ==
  Then(aws_get_client(w), LAMBDA r : Minio_bucket_exists(r.w, "aws", bucket))

aws_create_bucket(w, bucket) ==
  Then(aws_get_client(w), LAMBDA r0 :
    IF ~Truthy(getenv(r0.w, "S3_AWS_REGION")) THEN Raise(r0.w, "ValueError")
    ELSE Then(Minio_make_bucket(r0.w, "aws", bucket), LAMBDA r1 :
           Ok(r1.w, VTrue)))

\* with encode_utf8 false the caller hands over bytes
aws_put_object(w, bucket, object_name, data, encode_utf8) ==
  Then(aws_get_client(w), LAMBDA r0 :
  Then(aws_bucket_exists(r0.w, bucket), LAMBDA r1 :
  Then(IF ~Truthy(r1.val) THEN aws_create_bucket(r1.w, bucket) ELSE r1, LAMBDA r2 :
  Then(IF encode_utf8 THEN str_encode(r2.w, data) ELSE Ok(r2.w, VBytes(data)), LAMBDA r3 :
  Then(Minio_put_object(r3.w, "aws", bucket, object_name, r3.val.s), LAMBDA r4 :
    Ok(r4.w, VTrue))))))

aws_object_exists(w, bucket, object_name) ==
  Then(aws_get_client(w), LAMBDA r0 :
    LET r1 == Minio_stat_object(r0.w, "aws", bucket, object_name)
    IN IF r1.exc = NoExc THEN Ok(r1.w, VTrue)
       ELSE IF r1.exc # S3NoSuchKey THEN r1
       ELSE Ok(r1.w, VFalse))

aws_get_object(w, bucket, object_name) ==
  Then(aws_get_client(w), LAMBDA r0 :
  Then(aws_bucket_exists(r0.w, bucket), LAMBDA r1 :
    IF ~Truthy(r1.val) THEN Ok(r1.w, VStr(<<>>))
    ELSE Then(Minio_get_object(r1.w, "aws", bucket, object_name), LAMBDA r2 :
           bytes_decode(r2.w, r2.val.s))))

aws_download_object(w, bucket, object_name, file_type, file_name) ==
  Then(aws_get_client(w), LAMBDA r0 :
  Then(aws_bucket_exists(r0.w, bucket), LAMBDA r1 :
    IF ~Truthy(r1.val) THEN Ok(r1.w, VStr(<<>>))
    ELSE LET name == IF ~Truthy(file_name) THEN TMPFILE \o file_type
                     ELSE file_name.s
         IN Then(IF path_exists(r1.w, name) THEN os_remove(r1.w, name) ELSE r1, LAMBDA r2 :
            Then(Minio_fget_object(r2.w, "aws", bucket, object_name, name), LAMBDA r3 :
              Ok(r3.w, VStr(name))))))

aws_delete_object(w, bucket, object_name) ==
  Then(aws_object_exists(w, bucket, object_name), LAMBDA r0 :
    IF ~Truthy(r0.val) THEN Ok(r0.w, VFalse)
    ELSE Then(aws_get_client(r0.w), LAMBDA r1 :
         Then(Minio_remove_object(r1.w, "aws", bucket, object_name), LAMBDA r2 :
           Ok(r2.w, VTrue))))

\* aws_upload_object, were it to answer False where it raises the conflict error
aws_upload_object_quiet(w, bucket, object_name, file_path, force) ==
  Then(aws_get_client(w), LAMBDA r0 :
  Then(aws_bucket_exists(r0.w, bucket), LAMBDA r1 :
    IF ~Truthy(r1.val) THEN Ok(r1.w, VFalse)
    ELSE
  Then(aws_object_exists(r1.w, bucket, object_name), LAMBDA r2 :
    IF Truthy(r2.val) /\ ~force THEN Ok(r2.w, VFalse)
    ELSE
  Then(IF Truthy(r2.val) THEN aws_delete_object(r2.w, bucket, object_name) ELSE r2,
       LAMBDA r3 :
    IF ~path_exists(r3.w, file_path) THEN Ok(r3.w, VFalse)
    ELSE Then(Minio_fput_object(r3.w, "aws", bucket, object_name, file_path), LAMBDA r4 :
           Ok(r4.w, VTrue))))))

aws_upload_object(w, bucket, object_name, file_path, force) ==
  Then(aws_get_client(w), LAMBDA r0 :
  Then(aws_bucket_exists(r0.w, bucket), LAMBDA r1 :
    IF ~Truthy(r1.val) THEN Ok(r1.w, VFalse)
    ELSE
  Then(aws_object_exists(r1.w, bucket, object_name), LAMBDA r2 :
  Then(IF Truthy(r2.val)
       THEN IF force THEN aws_delete_object(r2.w, bucket, object_name)
            ELSE Raise(r2.w, "ValueError")
       ELSE r2, LAMBDA r3 :
    IF ~path_exists(r3.w, file_path) THEN Ok(r3.w, VFalse)
    ELSE Then(Minio_fput_object(r3.w, "aws", bucket, object_name, file_path), LAMBDA r4 :
           Ok(r4.w, VTrue))))))

aws_get_all_buckets(w) ==
  Then(aws_get_client(w), LAMBDA r : Minio_list_buckets(r.w, "aws"))

aws_copy_object(w, source_bucket, source_object, target_bucket, target_object) ==
  Then(aws_get_client(w), LAMBDA r0 :
  Then(Minio_copy_object(r0.w, "aws", target_bucket, target_object,
                         source_bucket, source_object), LAMBDA r1 :
    Ok(r1.w, VTrue)))

aws_get_bucket_objects(w, bucket, prefix) ==
  Then(aws_get_client(w), LAMBDA r : Minio_list_objects(r.w, "aws", bucket, prefix))

aws_get_download_credentials(w, bucket, object) ==
  Then(aws_bucket_exists(w, bucket), LAMBDA r0 :
  Then(IF ~Truthy(r0.val) THEN aws_create_bucket(r0.w, bucket) ELSE r0, LAMBDA r1 :
    sts_assume_role(r1.w,
      <<[Action |-> {"s3:GetObject", "s3:PutObject", "s3:DeleteObject",
                     "s3:ListMultipartUploadParts", "s3:AbortMultipartUpload"},
         Resource |-> {ARN_S3 \o bucket, ARN_S3 \o bucket \o SLASH \o <<42>>}],
        [Action |-> {"s3:GetBucketLocation"}, Resource |-> {ARN_S3 \o bucket}],
        [Action |-> {"s3:ListBucketMultipartUploads"}, Resource |-> {ARN_S3 \o bucket}]>>)))

aws_create_access_link(w, bucket, object_name) ==
  Then(aws_get_client(w), LAMBDA r0 :
  Then(aws_object_exists(r0.w, bucket, object_name), LAMBDA r1 :
    IF ~Truthy(r1.val) THEN Raise(r1.w, "FileNotFoundError")
    ELSE Minio_get_presigned_url(r1.w, "aws", TRUE, GET, bucket, object_name, ONE_HOUR)))

aws_create_data_upload_link(w, bucket, object_name) ==
  Then(aws_get_client(w), LAMBDA r0 :
  Then(aws_bucket_exists(r0.w, bucket), LAMBDA r1 :
  Then(IF ~Truthy(r1.val) THEN aws_create_bucket(r1.w, bucket) ELSE r1, LAMBDA r2 :
    Minio_get_presigned_url(r2.w, "aws", TRUE, POST, bucket, object_name,
                            TWELVE_HOURS))))

aws_create_file_upload_link(w, bucket, object_name) ==
  Then(aws_get_client(w), LAMBDA r0 :
  Then(aws_bucket_exists(r0.w, bucket), LAMBDA r1 :
  Then(IF ~Truthy(r1.val) THEN aws_create_bucket(r1.w, bucket) ELSE r1, LAMBDA r2 :
    Minio_get_presigned_url(r2.w, "aws", TRUE, PUT, bucket, object_name,
                            TWELVE_HOURS))))

aws_get_object_bytes(w, bucket, object_name) ==
  Then(aws_get_client(w), LAMBDA r0 :
  Then(aws_bucket_exists(r0.w, bucket), LAMBDA r1 :
    IF ~Truthy(r1.val) THEN Ok(r1.w, VStr(<<>>))
    ELSE Minio_get_object(r1.w, "aws", bucket, object_name)))

aws_get_upload_credentials_and_id(w, target_bucket) ==
  Then(aws_get_client(w), LAMBDA r0 :
  Then(aws_bucket_exists(r0.w, target_bucket), LAMBDA r1 :
  Then(IF ~Truthy(r1.val) THEN aws_create_bucket(r1.w, target_bucket) ELSE r1,
       LAMBDA r2 :
    sts_assume_role(r2.w,
      <<[Action |-> {"s3:AbortMultipartUpload", "s3:DeleteObject",
                     "s3:ListMultipartUploadParts", "s3:PutObject", "s3:GetObject"},
         Resource |-> {ARN_S3 \o target_bucket \o SLASH \o <<42>>}],
        [Action |-> {"s3:GetBucketLocation", "s3:ListBucket",
                     "s3:ListBucketMultipartUploads"},
         Resource |-> {ARN_S3 \o target_bucket}]>>))))

aws_remove_bucket(w, bucket) ==
  Then(aws_get_client(w), LAMBDA r0 :
  Then(Minio_remove_bucket(r0.w, "aws", bucket), LAMBDA r1 :
    Ok(r1.w, VTrue)))

----------------------------------------------------------------------------
(* enums.py and controller.py: the facade *)

\* class ConnectionTarget, each member by its value
AWS == Str(<<"A", "W", "S">>)
MINIO == Str(<<"M", "I", "N", "I", "O">>)
UNKNOWN == Str(<<"U", "N", "K", "N", "O", "W", "N">>)

ARCHIVE_BUCKET == Str(<<"a", "r", "c", "h", "i", "v", "e">>)

\* get_current_target, were it to answer UNKNOWN while S3_TARGET is unset
get_current_target_unset(w) ==
  LET target == getenv(w, "S3_TARGET")
  IN IF target = VStr(AWS) THEN AWS
     ELSE IF target = VNone THEN UNKNOWN
     ELSE MINIO

get_current_target(w) ==
  LET target == getenv(w, "S3_TARGET")
  IN IF target = VStr(AWS) THEN AWS ELSE MINIO

bucket_exists(w, bucket) ==
  LET target == get_current_target(w)
  IN IF target = MINIO THEN minio_bucket_exists(w, bucket)
     ELSE IF target = AWS THEN aws_bucket_exists(w, bucket)
     ELSE IF target = UNKNOWN THEN Ok(w, VFalse)
     ELSE Ok(w, VFalse)

create_bucket(w, bucket) ==
  LET target == get_current_target(w)
  IN IF target = MINIO THEN minio_create_bucket(w, bucket)
     ELSE IF target = AWS THEN aws_create_bucket(w, bucket)
     ELSE IF target = UNKNOWN THEN Ok(w, VFalse)
     ELSE Ok(w, VFalse)

put_object(w, bucket, object_name, data) ==
  LET target == get_current_target(w)
  IN IF target = MINIO THEN minio_put_object(w, bucket, object_name, data)
     ELSE IF target = AWS THEN aws_put_object(w, bucket, object_name, data, TRUE)
     ELSE IF target = UNKNOWN THEN Ok(w, VFalse)
     ELSE Ok(w, VFalse)

get_object(w, bucket, object_name) ==
  LET target == get_current_target(w)
  IN IF target = MINIO THEN minio_get_object(w, bucket, object_name)
     ELSE IF target = AWS THEN aws_get_object(w, bucket, object_name)
     ELSE IF target = UNKNOWN THEN Ok(w, VNone)
     ELSE Ok(w, VNone)

download_object(w, bucket, object_name, file_type, file_name) ==
  LET target == get_current_target(w)
  IN IF target = MINIO THEN minio_download_object(w, bucket, object_name, file_type, file_name)
     ELSE IF target = AWS THEN aws_download_object(w, bucket, object_name, file_type, file_name)
     ELSE IF target = UNKNOWN THEN Ok(w, VNone)
     ELSE Ok(w, VNone)

upload_object(w, bucket, object_name, file_path, force) ==
  LET target == get_current_target(w)
  IN IF target = MINIO THEN minio_upload_object(w, bucket, object_name, file_path, force)
     ELSE IF target = AWS THEN aws_upload_object(w, bucket, object_name, file_path, force)
     ELSE IF target = UNKNOWN THEN Ok(w, VFalse)
     ELSE Ok(w, VFalse)

delete_object(w, bucket, object_name) ==
  LET target == get_current_target(w)
  IN IF target = MINIO THEN minio_delete_object(w, bucket, object_name)
     ELSE IF target = AWS THEN aws_delete_object(w, bucket, object_name)
     ELSE IF target = UNKNOWN THEN Ok(w, VFalse)
     ELSE Ok(w, VFalse)

object_exists(w, bucket, object_name) ==
  LET target == get_current_target(w)
  IN IF target = MINIO THEN minio_object_exists(w, bucket, object_name)
     ELSE IF target = AWS THEN aws_object_exists(w, bucket, object_name)
     ELSE IF target = UNKNOWN THEN Ok(w, VFalse)
     ELSE Ok(w, VFalse)

get_all_buckets(w) ==
  LET target == get_current_target(w)
  IN IF target = MINIO THEN minio_get_all_buckets(w)
     ELSE IF target = AWS THEN aws_get_all_buckets(w)
     ELSE IF target = UNKNOWN THEN Ok(w, VNone)
     ELSE Ok(w, VNone)

copy_object(w, source_bucket, source_object, target_bucket, target_object) ==
  LET target == get_current_target(w)
  IN IF target = MINIO THEN minio_copy_object(w, source_bucket, source_object, target_bucket, target_object)
     ELSE IF target = AWS THEN aws_copy_object(w, source_bucket, source_object, target_bucket, target_object)
     ELSE IF target = UNKNOWN THEN Ok(w, VNone)
     ELSE Ok(w, VNone)

get_bucket_objects(w, bucket, prefix) ==
  LET target == get_current_target(w)
  IN IF target = MINIO THEN minio_get_bucket_objects(w, bucket, prefix)
     ELSE IF target = AWS THEN aws_get_bucket_objects(w, bucket, prefix)
     ELSE IF target = UNKNOWN THEN Ok(w, VNone)
     ELSE Ok(w, VNone)

\* json.dumps(response, sort_keys=True, default=str): the text of the dict, its keys
\* and the keys of the dict under "Credentials" in ascending order
json_dumps(v) ==
  [kind |-> "str", b |-> FALSE, s |-> Join(<<44>>, Sorted({v.keys[i] : i \in 1..Len(v.keys)})),
   keys |-> <<>>, policy |-> v.policy,
   cred |-> Sorted({v.cred[i] : i \in 1..Len(v.cred)})]

get_download_credentials(w, bucket, object) ==
  LET target == get_current_target(w)
  IN Then(IF target = MINIO THEN minio_get_download_credentials(w, bucket, object)
          ELSE IF target = AWS THEN aws_get_download_credentials(w, bucket, object)
          ELSE Ok(w, VNone), LAMBDA r :
       IF Truthy(r.val)
       THEN Ok(r.w, json_dumps(VGrant(r.val.keys \o <<OBJECT_NAME, BUCKET>>, r.val.cred,
                                       r.val.policy)))
       ELSE r)

create_access_link(w, bucket, object_name) ==
  LET target == get_current_target(w)
  IN IF target = MINIO THEN minio_create_access_link(w, bucket, object_name)
     ELSE IF target = AWS THEN aws_create_access_link(w, bucket, object_name)
     ELSE IF target = UNKNOWN THEN Ok(w, VNone)
     ELSE Ok(w, VNone)

create_data_upload_link(w, bucket, object_name) ==
  LET target == get_current_target(w)
  IN IF target = MINIO THEN minio_create_data_upload_link(w, bucket, object_name)
     ELSE IF target = AWS THEN aws_create_data_upload_link(w, bucket, object_name)
     ELSE IF target = UNKNOWN THEN Ok(w, VNone)
     ELSE Ok(w, VNone)

create_file_upload_link(w, bucket, object_name) ==
  LET target == get_current_target(w)
  IN IF target = MINIO THEN minio_create_file_upload_link(w, bucket, object_name)
     ELSE IF target = AWS THEN aws_create_file_upload_link(w, bucket, object_name)
     ELSE IF target = UNKNOWN THEN Ok(w, VNone)
     ELSE Ok(w, VNone)

\* task_id is None or a str
get_upload_credentials_and_id(w, target_bucket, task_id, as_dict, only_essentials) ==
  LET target == get_current_target(w)
  IN Then(IF target = MINIO THEN minio_get_upload_credentials_and_id(w, target_bucket)
          ELSE IF target = AWS THEN aws_get_upload_credentials_and_id(w, target_bucket)
          ELSE Ok(w, VNone), LAMBDA r :
       IF ~Truthy(r.val) THEN r
       ELSE LET ks1 == r.val.keys \o <<BUCKET>>
                ks2 == IF Truthy(task_id) THEN ks1 \o <<UPLOAD_TASK_ID>> ELSE ks1
                ks3 == IF only_essentials
                       THEN SelectSeq(ks2, LAMBDA k : k \in ESSENTIAL_CREDENTIAL_KEYS)
                       ELSE ks2
                cred == IF only_essentials
                        THEN SelectSeq(r.val.cred, LAMBDA k : k # EXPIRATION)
                        ELSE r.val.cred
                response == VGrant(ks3, cred, r.val.policy)
            IN Ok(r.w, IF ~as_dict THEN json_dumps(response) ELSE response))

\* for obj in objects: delete_object(bucket, obj)
RECURSIVE remove_bucket_loop(_, _, _)
remove_bucket_loop(w, bucket, objects) ==
  IF objects = <<>> THEN Ok(w, VNone)
  ELSE Then(delete_object(w, bucket, Head(objects)), LAMBDA r :
         remove_bucket_loop(r.w, bucket, Tail(objects)))

\* remove_bucket, were it to delete the objects whether or not recursive is set
remove_bucket_always(w, bucket, recursive) ==
  Then(get_bucket_objects(w, bucket, VNone), LAMBDA r0 :
    IF r0.val.kind # "dict" THEN Raise(r0.w, "TypeError")
    ELSE
  Then(IF Len(r0.val.keys) # 0 THEN remove_bucket_loop(r0.w, bucket, r0.val.keys)
       ELSE r0, LAMBDA r1 :
    LET target == get_current_target(r1.w)
    IN IF target = MINIO THEN minio_remove_bucket(r1.w, bucket)
       ELSE IF target = AWS THEN aws_remove_bucket(r1.w, bucket)
       ELSE IF target = UNKNOWN THEN Ok(r1.w, VFalse)
       ELSE Ok(r1.w, VFalse)))

remove_bucket(w, bucket, recursive) ==
  Then(get_bucket_objects(w, bucket, VNone), LAMBDA r0 :
    IF r0.val.kind # "dict" THEN Raise(r0.w, "TypeError")
    ELSE IF Len(r0.val.keys) # 0 /\ ~recursive THEN Ok(r0.w, VFalse)
    ELSE
  Then(IF Len(r0.val.keys) # 0 THEN remove_bucket_loop(r0.w, bucket, r0.val.keys)
       ELSE r0, LAMBDA r1 :
    LET target == get_current_target(r1.w)
    IN IF target = MINIO THEN minio_remove_bucket(r1.w, bucket)
       ELSE IF target = AWS THEN aws_remove_bucket(r1.w, bucket)
       ELSE IF target = UNKNOWN THEN Ok(r1.w, VFalse)
       ELSE Ok(r1.w, VFalse)))

\* the body of archive_bucket's loop, for the objects still to visit
RECURSIVE archive_bucket_loop(_, _, _, _)
archive_bucket_loop(w, bucket, names, delete_existing) ==
  IF names = <<>> THEN Ok(w, VNone)
  ELSE
    LET bucket_object_name == Head(names)
        archive_object_name == Join(SLASH, <<bucket, bucket_object_name>>)
    IN
    Then(object_exists(w, ARCHIVE_BUCKET, archive_object_name), LAMBDA r0 :
    Then(IF Truthy(r0.val) THEN delete_object(r0.w, ARCHIVE_BUCKET, archive_object_name)
         ELSE r0, LAMBDA r1 :
    Then(copy_object(r1.w, bucket, bucket_object_name, ARCHIVE_BUCKET,
                     archive_object_name), LAMBDA r2 :
    Then(IF delete_existing THEN delete_object(r2.w, bucket, bucket_object_name)
         ELSE r2, LAMBDA r3 :
      archive_bucket_loop(r3.w, bucket, Tail(names), delete_existing)))))

\* archive_bucket, were it to leave the emptied bucket in place
archive_bucket_kept(w, bucket, prefix, delete_existing) ==
  Then(bucket_exists(w, bucket), LAMBDA r0 :
    IF ~Truthy(r0.val) THEN Ok(r0.w, VNone)
    ELSE
  Then(bucket_exists(r0.w, ARCHIVE_BUCKET), LAMBDA r1 :
  Then(IF ~Truthy(r1.val) THEN create_bucket(r1.w, ARCHIVE_BUCKET) ELSE r1, LAMBDA r2 :
  Then(get_bucket_objects(r2.w, bucket, prefix), LAMBDA r3 :
    IF r3.val.kind # "dict" THEN Raise(r3.w, "AttributeError")
    ELSE
  Then(archive_bucket_loop(r3.w, bucket, r3.val.keys, delete_existing), LAMBDA r4 :
    Ok(r4.w, VTrue))))))

\* prefix is None or a str
archive_bucket(w, bucket, prefix, delete_existing) ==
  Then(bucket_exists(w, bucket), LAMBDA r0 :
    IF ~Truthy(r0.val) THEN Ok(r0.w, VNone)
    ELSE
  Then(bucket_exists(r0.w, ARCHIVE_BUCKET), LAMBDA r1 :
  Then(IF ~Truthy(r1.val) THEN create_bucket(r1.w, ARCHIVE_BUCKET) ELSE r1, LAMBDA r2 :
  Then(get_bucket_objects(r2.w, bucket, prefix), LAMBDA r3 :
    IF r3.val.kind # "dict" THEN Raise(r3.w, "AttributeError")
    ELSE
  Then(archive_bucket_loop(r3.w, bucket, r3.val.keys, delete_existing), LAMBDA r4 :
  Then(IF delete_existing THEN remove_bucket(r4.w, bucket, FALSE) ELSE r4, LAMBDA r5 :
    Ok(r5.w, VTrue)))))))

\* upload_tokenizer_data, were it to write the "/" also after an empty project id
upload_tokenizer_data_slash(w, bucket, project_id, data) ==
  LET object_name ==
        project_id \o SLASH \o DOCBIN_FULL
  IN
  Then(bucket_exists(w, bucket), LAMBDA r0 :
  Then(IF ~Truthy(r0.val) THEN create_bucket(r0.w, bucket) ELSE r0, LAMBDA r1 :
  Then(object_exists(r1.w, bucket, object_name), LAMBDA r2 :
  Then(IF Truthy(r2.val) THEN delete_object(r2.w, bucket, object_name) ELSE r2, LAMBDA r3 :
  Then(put_object(r3.w, bucket, object_name, data), LAMBDA r4 :
    Ok(r4.w, VTrue))))))

upload_tokenizer_data(w, bucket, project_id, data) ==
  LET object_name ==
        (IF project_id # <<>> THEN project_id \o SLASH ELSE <<>>) \o DOCBIN_FULL
  IN
  Then(bucket_exists(w, bucket), LAMBDA r0 :
  Then(IF ~Truthy(r0.val) THEN create_bucket(r0.w, bucket) ELSE r0, LAMBDA r1 :
  Then(object_exists(r1.w, bucket, object_name), LAMBDA r2 :
  Then(IF Truthy(r2.val) THEN delete_object(r2.w, bucket, object_name) ELSE r2, LAMBDA r3 :
  Then(put_object(r3.w, bucket, object_name, data), LAMBDA r4 :
    Ok(r4.w, VTrue))))))

IsHex(c) == (c >= 48 /\ c <= 57) \/ (c >= 97 /\ c <= 102)

\* is_uuid, were its pattern to ask for one hexadecimal digit only, at the start
is_uuid_loose(name) == name # <<>> /\ IsHex(name[1])

\* re.match(r"^[0-9a-f]{8}-[0-9a-f]{4}-[0-9a-f]{4}-[0-9a-f]{4}-[0-9a-f]{12}$", name):
\* the $ also matches before one trailing newline
is_uuid(name) ==
  LET body == IF Len(name) = 37 /\ name[37] = 10 THEN SubSeq(name, 1, 36) ELSE name
  IN /\ Len(body) = 36
     /\ \A i \in 1..36 : IF i \in {9, 14, 19, 24} THEN body[i] = 45 ELSE IsHex(body[i])

\* for object in get_bucket_objects(bucket): delete_object(bucket, object)
RECURSIVE empty_storage_objects(_, _, _)
empty_storage_objects(w, bucket, objects) ==
  IF objects = <<>> THEN Ok(w, VNone)
  ELSE Then(delete_object(w, bucket, Head(objects)), LAMBDA r :
         empty_storage_objects(r.w, bucket, Tail(objects)))

\* the body of empty_storage's loop, for the buckets still to visit
RECURSIVE empty_storage_loop(_, _, _)
empty_storage_loop(w, buckets, only_uuid) ==
  IF buckets = <<>> THEN Ok(w, VNone)
  ELSE
    LET bucket == Head(buckets)
    IN IF only_uuid /\ ~is_uuid(bucket) THEN empty_storage_loop(w, Tail(buckets), only_uuid)
       ELSE
    Then(get_bucket_objects(w, bucket, VNone), LAMBDA r0 :
      IF r0.val.kind # "dict" THEN Raise(r0.w, "TypeError")
      ELSE
    Then(empty_storage_objects(r0.w, bucket, r0.val.keys), LAMBDA r1 :
    Then(remove_bucket(r1.w, bucket, FALSE), LAMBDA r2 :
      empty_storage_loop(r2.w, Tail(buckets), only_uuid))))

empty_storage(w, force, only_uuid) ==
  IF force
  THEN Then(get_all_buckets(w), LAMBDA r0 :
         IF r0.val.kind # "dict" THEN Raise(r0.w, "TypeError")
         ELSE Then(empty_storage_loop(r0.w, r0.val.keys, only_uuid), LAMBDA r1 :
                Ok(r1.w, VBool(force))))
  ELSE Ok(w, VBool(force))

\* the body of the transfer's loop, for the objects still to visit
RECURSIVE transfer_loop(_, _, _, _, _)
transfer_loop(w, bucket, objects, remove_from_minio, force_overwrite) ==
  IF objects = <<>> THEN Ok(w, VNone)
  ELSE
    LET obj == Head(objects)
    IN
    Then(minio_download_object(w, bucket, obj, <<>>, VNone), LAMBDA r0 :
    Then(aws_upload_object(r0.w, bucket, obj, r0.val.s, force_overwrite), LAMBDA r1 :
    Then(os_remove(r1.w, r0.val.s), LAMBDA r2 :
    Then(IF remove_from_minio THEN minio_delete_object(r2.w, bucket, obj) ELSE r2, LAMBDA r3 :
      transfer_loop(r3.w, bucket, Tail(objects), remove_from_minio, force_overwrite)))))

transfer_bucket_from_minio_to_aws(w, bucket, remove_from_minio, force_overwrite) ==
  Then(minio_bucket_exists(w, bucket), LAMBDA r0 :
    IF ~Truthy(r0.val) THEN Ok(r0.w, VFalse)
    ELSE
  Then(aws_bucket_exists(r0.w, bucket), LAMBDA r1 :
  Then(IF ~Truthy(r1.val) THEN aws_create_bucket(r1.w, bucket) ELSE r1, LAMBDA r2 :
  Then(minio_get_bucket_objects(r2.w, bucket, VNone), LAMBDA r3 :
  Then(transfer_loop(r3.w, bucket, r3.val.keys, remove_from_minio, force_overwrite),
       LAMBDA r4 :
  Then(IF remove_from_minio THEN minio_remove_bucket(r4.w, bucket) ELSE r4, LAMBDA r5 :
    Ok(r5.w, VTrue)))))))

----------------------------------------------------------------------------
(* The inputs the calls are made with *)

UUID_BUCKET ==
  Str(<<"3", "f", "a", "8", "5", "f", "6", "4", "-", "5", "7", "1", "7", "-",
        "4", "5", "6", "2", "-", "b", "3", "f", "c", "-",
        "2", "c", "9", "6", "3", "f", "6", "6", "a", "f", "a", "6">>)
Buckets == {UUID_BUCKET, ARCHIVE_BUCKET}

DOCBIN == DOCBIN_FULL
P1_DOCBIN == Str(<<"p", "1", "/", "d", "o", "c", "b", "i", "n", "_", "f", "u", "l", "l">>)
ObjectNames == {DOCBIN, P1_DOCBIN}

ProjectIds == {<<>>, Str(<<"p", "1">>)}
Prefixes == {VNone, VStr(Str(<<"p", "1", "/">>))}

\* "{}", the euro sign (three bytes of UTF-8), a lone surrogate
DataSet == {Str(<<"{", "}">>), <<8364>>, <<55296>>}

DATA_FILE == Str(<<"d", "a", "t", "a", ".", "b", "i", "n">>)
NO_FILE == Str(<<"n", "o", "n", "e", ".", "b", "i", "n">>)
Paths == {DATA_FILE, NO_FILE}
\* what the local file DATA_FILE holds: the euro sign in UTF-8
FILE_BYTES == <<226, 130, 172>>

Booleans == {TRUE, FALSE}

\* task_id: None, or the id of an upload task
TaskIds == {VNone, VStr(Str(<<"t", "1">>))}

\* the values S3_TARGET takes; VNone is the variable unset
TargetValues == {VNone, VStr(Str(<<"A", "W", "S">>))}

\* the connection settings of both adapters
ConnectionEnv ==
  [S3_ENDPOINT_LOCAL |-> Str(<<"h">>), S3_ACCESS_KEY |-> Str(<<"k">>),
   S3_SECRET_KEY |-> Str(<<"s">>), S3_AWS_ENDPOINT |-> Str(<<"h">>),
   S3_AWS_REGION |-> Str(<<"r">>), S3_AWS_ACCESS_KEY |-> Str(<<"k">>),
   S3_AWS_SECRET_KEY |-> Str(<<"s">>)]

----------------------------------------------------------------------------
(* Bounds *)

MaxObjects == 2
MaxArchived == 1

NObjects(s) == Cardinality(UNION {{b} \X DOMAIN s[b] : b \in DOMAIN s})

\* how many times over the name n carries a bucket's name and "/" in front of it, as
\* the keys archive_bucket writes do
RECURSIVE Archived(_)
Archived(n) ==
  IF \E b \in Buckets : StartsWith(n, b \o SLASH)
  THEN LET b == CHOOSE x \in Buckets : StartsWith(n, x \o SLASH)
       IN 1 + Archived(SubSeq(n, Len(b) + 2, Len(n)))
  ELSE 0

\* a call is made only if it leaves at most MaxObjects objects in the two backends
\* together, none of them archived more than MaxArchived times over
Within(w) ==
  /\ NObjects(w.minio) + NObjects(w.aws) <= MaxObjects
  /\ \A t \in {"minio", "aws"} : \A b \in DOMAIN w[t] : \A n \in DOMAIN w[t][b] :
       Archived(n) <= MaxArchived

----------------------------------------------------------------------------
(* The state machine: one action per facade call *)

W == [minio |-> minio, aws |-> aws, files |-> files, env |-> env,
      minio_client |-> minio_client, aws_client |-> aws_client, made |-> made,
      sched |-> NoSched, trace |-> <<>>]

NoArgs == [bucket |-> <<>>, name |-> <<>>, data |-> <<>>, path |-> <<>>,
           prefix |-> VNone, flag |-> FALSE, flag2 |-> FALSE,
           target_bucket |-> <<>>, target_object |-> <<>>, task_id |-> VNone]

Idle == [op |-> "idle", args |-> NoArgs, target |-> <<>>, exc |-> NoExc, val |-> VNone,
         sched |-> NoSched, trace |-> <<>>, again |-> FALSE]
NoPre == [minio |-> <<>>, aws |-> <<>>, files |-> <<>>]

\* the threads of the process, and the two adapters (connections/minio.py, aws.py)
Threads == {1, 2}
Adapters == {"minio", "aws"}

\* a thread that is in no __get_client and has a call's outcome to show for none
Out == [pc |-> "out", adapter |-> <<>>, found |-> 0, i |-> 0, configured |-> FALSE,
        arguments |-> <<>>, inst |-> 0, exc |-> NoExc, val |-> 0]

\* the call op(args), made while no call is under way, ends as r says; call holds
\* its outcome, and pre what it found, until the caller has taken the outcome
\* the world is as the run r left it
Becomes(r) ==
  /\ minio' = r.w.minio
  /\ aws' = r.w.aws
  /\ files' = r.w.files
  /\ env' = r.w.env
  /\ minio_client' = r.w.minio_client
  /\ aws_client' = r.w.aws_client
  /\ made' = r.w.made
  /\ UNCHANGED <<threads, raced>>

\* the call op(args), begun in the world w, ended as r says
Ends(op, args, w, r, again) ==
  /\ Becomes(r)
  /\ call' = [op |-> op, args |-> args, target |-> get_current_target(w),
              exc |-> r.exc, val |-> r.val,
              sched |-> r.w.sched, trace |-> r.w.trace, again |-> again]

Do(op, args, r) ==
  /\ call.op = "idle"
  /\ Within(r.w)
  /\ Ends(op, args, W, r, FALSE)
  /\ pre' = [minio |-> minio, aws |-> aws, files |-> files]

\* S3_TARGET is set, or left unset, when the process starts
Init ==
  /\ minio = <<>>
  /\ aws = <<>>
  /\ files = [p \in {DATA_FILE} |-> FILE_BYTES]
  /\ \E v \in TargetValues : env = WithTarget(ConnectionEnv, v)
  /\ minio_client = 0
  /\ aws_client = 0
  /\ made = [minio |-> 0, aws |-> 0]
  /\ call = Idle
  /\ pre = NoPre
  /\ threads = [th \in Threads |-> Out]
  /\ raced = [a \in Adapters |-> FALSE]

\* the values S3_TARGET is given where only get_current_target is called: unset, and
\* every string of at most MaxTargetLen of the characters A, W, S, a
MaxTargetLen == 3
TargetAlphabet == {65, 87, 83, 97}

RECURSIVE StringsUpTo(_)
StringsUpTo(k) ==
  IF k = 0 THEN {<<>>}
  ELSE LET S == StringsUpTo(k - 1)
       IN S \cup {Append(s, c) : s \in {x \in S : Len(x) = k - 1}, c \in TargetAlphabet}

InitTarget ==
  /\ minio = <<>>
  /\ aws = <<>>
  /\ files = <<>>
  /\ \E v \in {VNone} \cup {VStr(s) : s \in StringsUpTo(MaxTargetLen)} :
       env = WithTarget(ConnectionEnv, v)
  /\ minio_client = 0
  /\ aws_client = 0
  /\ made = [minio |-> 0, aws |-> 0]
  /\ call = Idle
  /\ pre = NoPre
  /\ threads = [th \in Threads |-> Out]
  /\ raced = [a \in Adapters |-> FALSE]

\* the caller takes the outcome of the call
Return ==
  /\ call.op # "idle"
  /\ call' = Idle
  /\ pre' = NoPre
  /\ UNCHANGED <<minio, aws, files, env, minio_client, aws_client, made, threads, raced>>

GetCurrentTarget ==
  Do("get_current_target", NoArgs, Ok(W, VStr(get_current_target(W))))

BucketExists ==
  \E b \in Buckets :
    Do("bucket_exists", [NoArgs EXCEPT !.bucket = b], bucket_exists(W, b))

CreateBucket ==
  \E b \in Buckets :
    Do("create_bucket", [NoArgs EXCEPT !.bucket = b], create_bucket(W, b))

RemoveBucket ==
  \E b \in Buckets, recursive \in Booleans :
    Do("remove_bucket", [NoArgs EXCEPT !.bucket = b, !.flag = recursive],
       remove_bucket(W, b, recursive))

ArchiveBucket ==
  \E b \in Buckets, prefix \in Prefixes, delete_existing \in Booleans :
    Do("archive_bucket",
       [NoArgs EXCEPT !.bucket = b, !.prefix = prefix, !.flag = delete_existing],
       archive_bucket(W, b, prefix, delete_existing))

PutObject ==
  \E b \in Buckets, n \in ObjectNames, d \in DataSet :
    Do("put_object", [NoArgs EXCEPT !.bucket = b, !.name = n, !.data = d],
       put_object(W, b, n, d))

GetObject ==
  \E b \in Buckets, n \in ObjectNames :
    Do("get_object", [NoArgs EXCEPT !.bucket = b, !.name = n], get_object(W, b, n))

\* download_object(b, n, "") with no file name given
DownloadObject ==
  \E b \in Buckets, n \in ObjectNames :
    Do("download_object", [NoArgs EXCEPT !.bucket = b, !.name = n],
       download_object(W, b, n, <<>>, VNone))

UploadObject ==
  \E b \in Buckets, n \in ObjectNames, path \in Paths, force \in Booleans :
    Do("upload_object",
       [NoArgs EXCEPT !.bucket = b, !.name = n, !.path = path, !.flag = force],
       upload_object(W, b, n, path, force))

DeleteObject ==
  \E b \in Buckets, n \in ObjectNames :
    Do("delete_object", [NoArgs EXCEPT !.bucket = b, !.name = n], delete_object(W, b, n))

ObjectExists ==
  \E b \in Buckets, n \in ObjectNames :
    Do("object_exists", [NoArgs EXCEPT !.bucket = b, !.name = n], object_exists(W, b, n))

GetDownloadCredentials ==
  \E b \in Buckets, n \in ObjectNames :
    Do("get_download_credentials", [NoArgs EXCEPT !.bucket = b, !.name = n],
       get_download_credentials(W, b, n))

UploadTokenizerData ==
  \E b \in Buckets, p \in ProjectIds, d \in DataSet :
    Do("upload_tokenizer_data", [NoArgs EXCEPT !.bucket = b, !.name = p, !.data = d],
       upload_tokenizer_data(W, b, p, d))

EmptyStorage ==
  \E force \in Booleans, only_uuid \in Booleans :
    Do("empty_storage", [NoArgs EXCEPT !.flag = force, !.flag2 = only_uuid],
       empty_storage(W, force, only_uuid))

TransferBucket ==
  \E b \in Buckets, remove_from_minio \in Booleans, force_overwrite \in Booleans :
    Do("transfer_bucket_from_minio_to_aws",
       [NoArgs EXCEPT !.bucket = b, !.flag = remove_from_minio, !.flag2 = force_overwrite],
       transfer_bucket_from_minio_to_aws(W, b, remove_from_minio, force_overwrite))

CreateAccessLink ==
  \E b \in Buckets, n \in ObjectNames :
    Do("create_access_link", [NoArgs EXCEPT !.bucket = b, !.name = n],
       create_access_link(W, b, n))

CreateDataUploadLink ==
  \E b \in Buckets, n \in ObjectNames :
    Do("create_data_upload_link", [NoArgs EXCEPT !.bucket = b, !.name = n],
       create_data_upload_link(W, b, n))

CreateFileUploadLink ==
  \E b \in Buckets, n \in ObjectNames :
    Do("create_file_upload_link", [NoArgs EXCEPT !.bucket = b, !.name = n],
       create_file_upload_link(W, b, n))

GetUploadCredentialsAndId ==
  \E b \in Buckets, task_id \in TaskIds, as_dict \in Booleans,
     only_essentials \in Booleans :
    Do("get_upload_credentials_and_id",
       [NoArgs EXCEPT !.bucket = b, !.task_id = task_id, !.flag = as_dict,
                      !.flag2 = only_essentials],
       get_upload_credentials_and_id(W, b, task_id, as_dict, only_essentials))

GetAllBuckets ==
  Do("get_all_buckets", NoArgs, get_all_buckets(W))

CopyObject ==
  \E b \in Buckets, n \in ObjectNames, tb \in Buckets, tn \in ObjectNames :
    Do("copy_object",
       [NoArgs EXCEPT !.bucket = b, !.name = n, !.target_bucket = tb,
                      !.target_object = tn],
       copy_object(W, b, n, tb, tn))

GetBucketObjects ==
  \E b \in Buckets, prefix \in Prefixes :
    Do("get_bucket_objects", [NoArgs EXCEPT !.bucket = b, !.prefix = prefix],
       get_bucket_objects(W, b, prefix))

\* the two functions of the adapters that the facade has no function for, called on
\* the adapter itself
AwsGetObjectBytes ==
  \E b \in Buckets, n \in ObjectNames :
    Do("aws.get_object_bytes", [NoArgs EXCEPT !.bucket = b, !.name = n],
       aws_get_object_bytes(W, b, n))

MinioGetUploadCredentialsAndIdWithEndpoint ==
  \E b \in Buckets :
    Do("minio.get_upload_credentials_and_id_with_endpoint",
       [NoArgs EXCEPT !.bucket = b, !.name = HTTP \o ConnectionEnv["S3_ENDPOINT_LOCAL"]],
       minio_get_upload_credentials_and_id_with_endpoint(
         W, b, HTTP \o ConnectionEnv["S3_ENDPOINT_LOCAL"]))

Next ==
  \/ Return
  \/ GetCurrentTarget
  \/ BucketExists
  \/ CreateBucket
  \/ RemoveBucket
  \/ ArchiveBucket
  \/ PutObject
  \/ GetObject
  \/ DownloadObject
  \/ UploadObject
  \/ DeleteObject
  \/ ObjectExists
  \/ CreateAccessLink
  \/ CreateDataUploadLink
  \/ CreateFileUploadLink
  \/ GetUploadCredentialsAndId
  \/ GetDownloadCredentials
  \/ UploadTokenizerData
  \/ GetAllBuckets
  \/ CopyObject
  \/ GetBucketObjects
  \/ EmptyStorage
  \/ TransferBucket

Spec == Init /\ [][Next]_vars

\* the calls that hand out credentials and read objects, the two that only the
\* adapters offer among them, made on what put_object has stored
NextAccess ==
  \/ Return
  \/ PutObject
  \/ GetObject
  \/ GetDownloadCredentials
  \/ GetUploadCredentialsAndId
  \/ AwsGetObjectBytes
  \/ MinioGetUploadCredentialsAndIdWithEndpoint

SpecAccess == Init /\ [][NextAccess]_vars

----------------------------------------------------------------------------
(* What the claims are stated with *)

\* the backend that answered the last call
T == IF call.target = AWS THEN "aws" ELSE "minio"

\* that backend's buckets now, and as the call found them
Cur == W[T]
Was == pre[T]

B == call.args.bucket
N == call.args.name

Returned(op) == call.op = op /\ call.exc = NoExc

HadBucket == B \in DOMAIN Was
HadObject == HadBucket /\ N \in DOMAIN Was[B]
HasBucket == B \in DOMAIN Cur
HasObject == HasBucket /\ N \in DOMAIN Cur[B]

\* nothing stored and no local file differs from what the call found
NothingChanged == minio = pre.minio /\ aws = pre.aws /\ files = pre.files

----------------------------------------------------------------------------
(* C1 *)

\* C1: once put_object(B, n, d) has returned, bucket B exists and get_object(B, n)
\* returns exactly d, whether or not B or n existed and whatever n held.
C1_PutThenGet ==
  Returned("put_object") =>
    /\ bucket_exists(W, B) = Ok(W, VTrue)
    /\ get_object(W, B, N) = Ok(W, VStr(call.args.data))

\* a put_object that replaced other content with a string of more than one byte a character
C1_Witness ==
  /\ Returned("put_object")
  /\ HadObject
  /\ Was[B][N] # Cur[B][N]
  /\ Len(Cur[B][N]) > Len(call.args.data)

----------------------------------------------------------------------------
(* C2 *)

\* C2: upload_object(B, n, path, force) onto an object n that B already holds: without
\* force it raises the conflict error and leaves the stored object as it was; with
\* force, when the call returns, n is still stored, and holds the local file's content.
C2_UploadOntoExisting ==
  (call.op = "upload_object" /\ HadObject) =>
    IF ~call.args.flag
    THEN call.exc = "ValueError" /\ Cur = Was
    ELSE call.exc = NoExc =>
           /\ HasObject
           /\ call.args.path \in DOMAIN pre.files => Cur[B][N] = pre.files[call.args.path]

----------------------------------------------------------------------------
(* C3 *)

\* the key archive_bucket stores the object n of bucket b under
ArchiveKey(b, n) == b \o <<47>> \o n

\* every object the bucket B held is in the archive bucket under "B/n", as it was
AllArchived ==
  \A n \in DOMAIN Was[B] :
    /\ ARCHIVE_BUCKET \in DOMAIN Cur
    /\ ArchiveKey(B, n) \in DOMAIN Cur[ARCHIVE_BUCKET]
    /\ Cur[ARCHIVE_BUCKET][ArchiveKey(B, n)] = Was[B][n]

ArchivedWhole ==
  /\ Returned("archive_bucket")
  /\ call.args.prefix = VNone
  /\ call.args.flag
  /\ HadBucket

\* C3 as claimed: for every existing bucket B, after archive_bucket(B,
\* delete_existing=true) every object B held is in "archive" under "B/n" with its
\* content, and B no longer exists.
C3_AsClaimed == ArchivedWhole => (AllArchived /\ ~HasBucket)

\* C3, amended: the same for every existing bucket B other than "archive" itself.
C3_ArchiveThenGone ==
  (ArchivedWhole /\ B # ARCHIVE_BUCKET) => (AllArchived /\ ~HasBucket)

\* a bucket was archived whose object replaced an older archive entry of the same key
C3_Witness ==
  /\ ArchivedWhole
  /\ B # ARCHIVE_BUCKET
  /\ \E n \in DOMAIN Was[B] :
       /\ ARCHIVE_BUCKET \in DOMAIN Was
       /\ ArchiveKey(B, n) \in DOMAIN Was[ARCHIVE_BUCKET]
       /\ Was[ARCHIVE_BUCKET][ArchiveKey(B, n)] # Was[B][n]

----------------------------------------------------------------------------
(* C4 *)

\* C4: transfer_bucket_from_minio_to_aws(B) on a bucket the self-hosted side does not
\* hold returns False and changes nothing on either side; when it returns True, every
\* object the self-hosted B held is in the cloud B with the same content.
C4_Transfer ==
  call.op = "transfer_bucket_from_minio_to_aws" =>
    /\ B \notin DOMAIN pre.minio =>
         call.exc = NoExc /\ call.val = VFalse /\ NothingChanged
    /\ (call.exc = NoExc /\ call.val = VTrue) =>
         /\ B \in DOMAIN pre.minio
         /\ B \in DOMAIN aws
         /\ \A n \in DOMAIN pre.minio[B] :
              n \in DOMAIN aws[B] /\ aws[B][n] = pre.minio[B][n]

\* a transfer returned True that replaced different content on the cloud side
C4_Witness ==
  /\ Returned("transfer_bucket_from_minio_to_aws")
  /\ call.val = VTrue
  /\ \E n \in DOMAIN pre.minio[B] :
       /\ B \in DOMAIN pre.aws
       /\ n \in DOMAIN pre.aws[B]
       /\ pre.aws[B][n] # pre.minio[B][n]

----------------------------------------------------------------------------
(* C5 *)

\* C5: empty_storage(force=false) returns False and changes nothing;
\* empty_storage(force=true, only_uuid=true) removes every bucket named like a UUID
\* (the tenant bucket UUID_BUCKET among them) and leaves every other bucket (the
\* archive bucket among them) with all its objects as they were.
C5_EmptyStorage ==
  call.op = "empty_storage" =>
    /\ ~call.args.flag => call.exc = NoExc /\ call.val = VFalse /\ NothingChanged
    /\ (call.args.flag /\ call.args.flag2) =>
         /\ call.exc = NoExc
         /\ UUID_BUCKET \notin DOMAIN Cur
         /\ ARCHIVE_BUCKET \in DOMAIN Was =>
              ARCHIVE_BUCKET \in DOMAIN Cur /\ Cur[ARCHIVE_BUCKET] = Was[ARCHIVE_BUCKET]
         /\ \A b \in DOMAIN Was :
              IF is_uuid(b) THEN b \notin DOMAIN Cur
              ELSE b \in DOMAIN Cur /\ Cur[b] = Was[b]
         /\ DOMAIN Cur \subseteq DOMAIN Was

\* a forced wipe of the UUID buckets met a UUID bucket and an archive bucket, both
\* holding objects
C5_Witness ==
  /\ Returned("empty_storage")
  /\ call.args.flag /\ call.args.flag2
  /\ UUID_BUCKET \in DOMAIN Was /\ DOMAIN Was[UUID_BUCKET] # {}
  /\ ARCHIVE_BUCKET \in DOMAIN Was /\ DOMAIN Was[ARCHIVE_BUCKET] # {}

----------------------------------------------------------------------------
(* C6 *)

\* C6: the facade's remove_bucket(B, recursive) on a bucket that holds objects:
\* without recursive it returns False and the bucket and its objects are as they
\* were; with recursive it returns True and B no longer exists.
C6_RemoveNonEmpty ==
  (call.op = "remove_bucket" /\ HadBucket /\ DOMAIN Was[B] # {}) =>
    /\ call.exc = NoExc
    /\ IF call.args.flag THEN call.val = VTrue /\ ~HasBucket
       ELSE call.val = VFalse /\ NothingChanged

\* a recursive remove_bucket took away a bucket that held two objects
C6_Witness ==
  /\ Returned("remove_bucket")
  /\ call.args.flag
  /\ HadBucket
  /\ Cardinality(DOMAIN Was[B]) = 2
  /\ ~HasBucket

----------------------------------------------------------------------------
(* C7 *)

\* C7: delete_object(B, n) for an object that is not stored, be it that B exists
\* without n or that B does not exist, returns False, raises nothing and changes nothing.
C7_DeleteMissing ==
  (call.op = "delete_object" /\ ~HadObject) =>
    call.exc = NoExc /\ call.val = VFalse /\ NothingChanged

----------------------------------------------------------------------------
(* C8 *)

\* the object name the claim gives for the project id p
TokenizerName(p) ==
  IF p = <<>> THEN DOCBIN ELSE p \o <<47>> \o DOCBIN

\* C8: once upload_tokenizer_data(B, p, d) has returned True, bucket B exists,
\* get_object(B, "p/docbin_full") (bare "docbin_full" if p is empty) returns exactly d,
\* and every other object of B is as it was.
C8_TokenizerData ==
  (Returned("upload_tokenizer_data") /\ call.val = VTrue) =>
    /\ HasBucket
    /\ get_object(W, B, TokenizerName(N)) = Ok(W, VStr(call.args.data))
    /\ DOMAIN Cur[B] = (IF HadBucket THEN DOMAIN Was[B] ELSE {}) \cup {TokenizerName(N)}
    /\ \A n \in DOMAIN Cur[B] \ {TokenizerName(N)} : Cur[B][n] = Was[B][n]

\* tokenizer data replaced an older object beside another object of the bucket
C8_Witness ==
  /\ Returned("upload_tokenizer_data")
  /\ HadBucket
  /\ TokenizerName(N) \in DOMAIN Was[B]
  /\ Was[B][TokenizerName(N)] # Cur[B][TokenizerName(N)]
  /\ Cardinality(DOMAIN Cur[B]) = 2

----------------------------------------------------------------------------
(* C9 *)

\* C9: after create_bucket(B) of a bucket that did not exist, bucket_exists(B) is
\* True; after remove_bucket(B) of an existing empty bucket, bucket_exists(B) is
\* False; on the self-hosted and on the cloud adapter alike.
C9_CreateRemoveExists ==
  /\ (Returned("create_bucket") /\ ~HadBucket) =>
       call.val = VTrue /\ bucket_exists(W, B) = Ok(W, VTrue)
  /\ (Returned("remove_bucket") /\ HadBucket /\ DOMAIN Was[B] = {}) =>
       call.val = VTrue /\ bucket_exists(W, B) = Ok(W, VFalse)

\* the cloud adapter removed an empty bucket
C9_Witness ==
  /\ Returned("remove_bucket")
  /\ call.target = AWS
  /\ HadBucket
  /\ DOMAIN Was[B] = {}
  /\ ~HasBucket

----------------------------------------------------------------------------
(* C10 *)

NextTarget == GetCurrentTarget \/ Return

SpecTarget == InitTarget /\ [][NextTarget]_vars

\* C10: get_current_target() answers AWS exactly when S3_TARGET is set to the literal
\* "AWS", and MINIO for every other value and when S3_TARGET is unset; it raises
\* nothing and never answers UNKNOWN.
C10_TargetResolution ==
  call.op = "get_current_target" =>
    /\ call.exc = NoExc
    /\ call.val = VStr(IF "S3_TARGET" \in DOMAIN env /\ env["S3_TARGET"] = <<65, 87, 83>>
                       THEN AWS ELSE MINIO)
    /\ call.val # VStr(UNKNOWN)

\* get_current_target answered MINIO while S3_TARGET was unset
C10_Witness ==
  /\ Returned("get_current_target")
  /\ "S3_TARGET" \notin DOMAIN env
  /\ call.val = VStr(MINIO)

----------------------------------------------------------------------------
(* C13 *)

\* C13: bucket_exists(B) of a bucket that does not exist, and object_exists(B, n),
\* get_object(B, n) and download_object(B, n) of an object that is not stored, be it
\* that B does not exist or that B exists without n, raise nothing and return a
\* falsy value (False or "").
C13_NotFoundIsFalsy ==
  /\ (call.op = "bucket_exists" /\ ~HadBucket) =>
       call.exc = NoExc /\ ~Truthy(call.val)
  /\ (call.op \in {"object_exists", "get_object", "download_object"} /\ ~HadObject) =>
       call.exc = NoExc /\ ~Truthy(call.val)

----------------------------------------------------------------------------
(* C14 *)

\* the name download_object gives the temporary file of the transfer
TRANSFER_FILE == TMPFILE \o <<>>

\* C14: once transfer_bucket_from_minio_to_aws(B) has ended on a bucket that held
\* objects, by returning or by raising, the temporary file it wrote is gone.
C14_NoTemporaryFile ==
  (call.op = "transfer_bucket_from_minio_to_aws"
     /\ B \in DOMAIN pre.minio /\ DOMAIN pre.minio[B] # {}) =>
    TRANSFER_FILE \notin DOMAIN files

----------------------------------------------------------------------------
(* C19 *)

P == call.args.prefix

\* archive_bucket(B, prefix=P, delete_existing=true) met a bucket B that held an
\* object whose name does not start with P
ArchivedUnderPrefix ==
  /\ call.op = "archive_bucket"
  /\ P # VNone
  /\ call.args.flag
  /\ HadBucket
  /\ \E n \in DOMAIN Was[B] : ~StartsWith(n, P.s)

\* the objects of bucket B under P are in "archive" under "B/n" and no longer in B,
\* every other object of B and B itself are as they were, nothing else came into
\* "archive", and the call returned True
OnlyPrefixArchived ==
  /\ call.exc = NoExc
  /\ call.val = VTrue
  /\ HasBucket
  /\ ARCHIVE_BUCKET \in DOMAIN Cur
  /\ \A n \in DOMAIN Was[B] :
       IF StartsWith(n, P.s)
       THEN /\ n \notin DOMAIN Cur[B]
            /\ ArchiveKey(B, n) \in DOMAIN Cur[ARCHIVE_BUCKET]
            /\ Cur[ARCHIVE_BUCKET][ArchiveKey(B, n)] = Was[B][n]
       ELSE n \in DOMAIN Cur[B] /\ Cur[B][n] = Was[B][n]
  /\ DOMAIN Cur[ARCHIVE_BUCKET] \subseteq
       (IF ARCHIVE_BUCKET \in DOMAIN Was THEN DOMAIN Was[ARCHIVE_BUCKET] ELSE {})
         \cup {ArchiveKey(B, n) : n \in {x \in DOMAIN Was[B] : StartsWith(x, P.s)}}

\* C19 as claimed: archive_bucket(B, prefix=P, delete_existing=true) on a bucket B
\* that also holds an object not under P copies to "archive" and deletes from B only
\* the objects under P; every other object of B and B itself remain; it returns True.
C19_AsClaimed == ArchivedUnderPrefix => OnlyPrefixArchived

\* C19, amended: the same for every bucket B other than "archive" itself.
C19_PrefixOnly ==
  (ArchivedUnderPrefix /\ B # ARCHIVE_BUCKET) => OnlyPrefixArchived

\* a bucket holding one object under the prefix and one beside it was archived
C19_Witness ==
  /\ ArchivedUnderPrefix
  /\ B # ARCHIVE_BUCKET
  /\ call.exc = NoExc
  /\ \E n \in DOMAIN Was[B] : StartsWith(n, P.s)
  /\ HasBucket
  /\ Cardinality(DOMAIN Cur[B]) = 1

----------------------------------------------------------------------------
(* C12 *)

\* the actions that write, delete or abort
WritingActions == {"s3:PutObject", "s3:DeleteObject", "s3:AbortMultipartUpload"}

\* every resource the policy p names
Resources(p) == UNION {p[i].Resource : i \in 1..Len(p)}

\* C12: the policy of the grant get_download_credentials(B, n) returns allows no put,
\* delete or multipart-abort action, and the resources it names are the single object
\* B/n on the cloud adapter and the bucket B on the self-hosted adapter.
C12_DownloadPolicy ==
  Returned("get_download_credentials") =>
    /\ \A i \in 1..Len(call.val.policy) :
         call.val.policy[i].Action \cap WritingActions = {}
    /\ Resources(call.val.policy) =
         (IF call.target = AWS THEN {ARN_S3 \o B \o SLASH \o N} ELSE {ARN_S3 \o B})

----------------------------------------------------------------------------
(* Calls by name *)

\* the facade call op with the arguments args, made in the world w
Invoke(w, op, args) ==
  CASE op = "bucket_exists" -> bucket_exists(w, args.bucket)
    [] op = "create_bucket" -> create_bucket(w, args.bucket)
    [] op = "remove_bucket" -> remove_bucket(w, args.bucket, args.flag)
    [] op = "archive_bucket" -> archive_bucket(w, args.bucket, args.prefix, args.flag)
    [] op = "put_object" -> put_object(w, args.bucket, args.name, args.data)
    [] op = "get_object" -> get_object(w, args.bucket, args.name)
    [] op = "download_object" -> download_object(w, args.bucket, args.name, <<>>, VNone)
    [] op = "upload_object" ->
         upload_object(w, args.bucket, args.name, args.path, args.flag)
    [] op = "delete_object" -> delete_object(w, args.bucket, args.name)
    [] op = "object_exists" -> object_exists(w, args.bucket, args.name)
    [] op = "get_download_credentials" ->
         get_download_credentials(w, args.bucket, args.name)
    [] op = "upload_tokenizer_data" ->
         upload_tokenizer_data(w, args.bucket, args.name, args.data)
    [] op = "get_all_buckets" -> get_all_buckets(w)
    [] op = "copy_object" ->
         copy_object(w, args.bucket, args.name, args.target_bucket, args.target_object)
    [] op = "create_access_link" -> create_access_link(w, args.bucket, args.name)
    [] op = "create_data_upload_link" ->
         create_data_upload_link(w, args.bucket, args.name)
    [] op = "create_file_upload_link" ->
         create_file_upload_link(w, args.bucket, args.name)
    [] op = "get_upload_credentials_and_id" ->
         get_upload_credentials_and_id(w, args.bucket, args.task_id, args.flag,
                                       args.flag2)
    [] op = "get_bucket_objects" -> get_bucket_objects(w, args.bucket, args.prefix)
    [] op = "empty_storage" -> empty_storage(w, args.flag, args.flag2)
    [] op = "transfer_bucket_from_minio_to_aws" ->
         transfer_bucket_from_minio_to_aws(w, args.bucket, args.flag, args.flag2)

\* the arguments the call op is made with
ArgsOf(op) ==
  CASE op \in {"bucket_exists", "create_bucket"} ->
         {[NoArgs EXCEPT !.bucket = b] : b \in Buckets}
    [] op = "remove_bucket" ->
         {[NoArgs EXCEPT !.bucket = b, !.flag = f] : b \in Buckets, f \in Booleans}
    [] op = "archive_bucket" ->
         {[NoArgs EXCEPT !.bucket = b, !.prefix = p, !.flag = f] :
            b \in Buckets, p \in Prefixes, f \in Booleans}
    [] op = "put_object" ->
         {[NoArgs EXCEPT !.bucket = b, !.name = n, !.data = d] :
            b \in Buckets, n \in ObjectNames, d \in DataSet}
    [] op \in {"get_object", "download_object", "delete_object", "object_exists",
               "get_download_credentials", "create_access_link",
               "create_data_upload_link", "create_file_upload_link"} ->
         {[NoArgs EXCEPT !.bucket = b, !.name = n] : b \in Buckets, n \in ObjectNames}
    [] op = "copy_object" ->
         {[NoArgs EXCEPT !.bucket = b, !.name = n, !.target_bucket = tb,
                         !.target_object = tn] :
            b \in Buckets, n \in ObjectNames, tb \in Buckets, tn \in ObjectNames}
    [] op = "get_upload_credentials_and_id" ->
         {[NoArgs EXCEPT !.bucket = b, !.task_id = t, !.flag = f, !.flag2 = u] :
            b \in Buckets, t \in TaskIds, f \in Booleans, u \in Booleans}
    [] op = "upload_object" ->
         {[NoArgs EXCEPT !.bucket = b, !.name = n, !.path = f, !.flag = force] :
            b \in Buckets, n \in ObjectNames, f \in Paths, force \in Booleans}
    [] op = "upload_tokenizer_data" ->
         {[NoArgs EXCEPT !.bucket = b, !.name = p, !.data = d] :
            b \in Buckets, p \in ProjectIds, d \in DataSet}
    [] op = "get_all_buckets" -> {NoArgs}
    [] op = "get_bucket_objects" ->
         {[NoArgs EXCEPT !.bucket = b, !.prefix = p] : b \in Buckets, p \in Prefixes}
    [] op = "empty_storage" ->
         {[NoArgs EXCEPT !.flag = f, !.flag2 = u] : f \in Booleans, u \in Booleans}
    [] op = "transfer_bucket_from_minio_to_aws" ->
         {[NoArgs EXCEPT !.bucket = b, !.flag = f, !.flag2 = u] :
            b \in Buckets, f \in Booleans, u \in Booleans}

----------------------------------------------------------------------------
(* The target a call dispatches on *)

\* get_current_target answers AWS or MINIO and nothing else: no call of the facade
\* dispatches on UNKNOWN, and the branches the facade keeps for it are never taken
TargetIsResolved ==
  call.op # "idle" => call.target \in {AWS, MINIO}

----------------------------------------------------------------------------
(* Calls followed request by request *)

MaxSchedObjects == 2

\* a call followed request by request leaves at most MaxSchedObjects objects in each
\* backend, none of them archived more than MaxArchived times over
WithinSched(w) ==
  \A t \in {"minio", "aws"} :
    /\ NObjects(w[t]) <= MaxSchedObjects
    /\ \A b \in DOMAIN w[t] : \A n \in DOMAIN w[t][b] : Archived(n) <= MaxArchived

\* the world in which the next call is followed request by request, under sched
Followed(sched) == [W EXCEPT !.sched = sched]

Uncut == [NoSched EXCEPT !.on = TRUE]

\* how many requests the call op(args) makes when nothing cuts it off
Requests(op, args) == Len(Invoke(Followed(Uncut), op, args).w.trace)

CompositeOps == {"archive_bucket", "empty_storage", "transfer_bucket_from_minio_to_aws"}

\* the calls that are cut off, and seen as their requests so far left the world
InterruptedOps == CompositeOps \cup {"upload_object"}

\* the call op(args) is cut off after k of its requests, for every k it can be: the
\* world stays as those k requests left it (for upload_object: it is the world
\* another thread sees at that moment)
InterruptedRun ==
  \E op \in InterruptedOps : \E args \in ArgsOf(op) :
    \E k \in 0..(Requests(op, args) - 1) :
      LET w == Followed([Uncut EXCEPT !.crash_at = k])
          r == Invoke(w, op, args)
      IN /\ call.op = "idle"
         /\ r.exc = Interrupted
         /\ WithinSched(r.w)
         /\ Ends(op, args, w, r, FALSE)
         /\ pre' = [minio |-> minio, aws |-> aws, files |-> files]

\* the composite operation that was cut off is called again with the same arguments
Rerun ==
  /\ call.op \in CompositeOps
  /\ call.exc = Interrupted
  /\ LET r == Invoke(W, call.op, call.args)
     IN /\ WithinSched(r.w)
        /\ Ends(call.op, call.args, W, r, TRUE)
  /\ UNCHANGED pre

\* the calls whose steps are facade calls themselves
SwitchedOps == {"archive_bucket", "remove_bucket", "empty_storage", "upload_tokenizer_data"}

\* while the call op(args) runs, another thread sets S3_TARGET to another value (or
\* unsets it) after k of the call's requests, for every k >= 1 the call gets to
SwitchedRun ==
  \E op \in SwitchedOps : \E args \in ArgsOf(op) :
    \E v \in TargetValues \ {getenv(W, "S3_TARGET")} : \E k \in 1..Requests(op, args) :
      LET w == Followed([Uncut EXCEPT !.switch_at = k, !.switch_to = v])
          r == Invoke(w, op, args)
      IN /\ call.op = "idle"
         /\ r.w.env # env
         /\ WithinSched(r.w)
         /\ Ends(op, args, w, r, FALSE)
         /\ pre' = [minio |-> minio, aws |-> aws, files |-> files]

\* the caller takes the outcome of a call that was not followed; a behaviour ends
\* with the one call that is followed, and its rerun
ReturnBefore == ~call.sched.on /\ ~call.again /\ Return

NextInterrupted == ReturnBefore \/ PutObject \/ InterruptedRun \/ Rerun

SpecInterrupted == Init /\ [][NextInterrupted]_vars

NextSwitched == ReturnBefore \/ PutObject \/ SwitchedRun

SpecSwitched == Init /\ [][NextSwitched]_vars

\* the world as the last call found it
PreW == [W EXCEPT !.minio = pre.minio, !.aws = pre.aws, !.files = pre.files]

\* the last call, run from where it began with nothing cutting it off
Whole == Invoke(PreW, call.op, call.args)

----------------------------------------------------------------------------
(* C15 *)

\* C15: when archive_bucket, empty_storage or transfer_bucket_from_minio_to_aws was
\* cut off after any number of its steps and is called again with the same arguments,
\* the second call raises nothing and leaves both backends as one run that is not cut
\* off (and returns) would have left them.
C15_Rerunnable ==
  (call.again /\ Whole.exc = NoExc) =>
    /\ call.exc = NoExc
    /\ minio = Whole.w.minio
    /\ aws = Whole.w.aws

----------------------------------------------------------------------------
(* C17 *)

\* upload_object(B, n, path, force=true) onto an object that B held, with the local
\* file there, seen after some of its requests
ObservedUpload ==
  /\ call.op = "upload_object"
  /\ call.exc = Interrupted
  /\ call.args.flag
  /\ HadObject
  /\ call.args.path \in DOMAIN pre.files

\* the delete request of the upload has been made
Deleted == \E i \in 1..Len(call.trace) : call.trace[i].req = "remove_object"

\* C17: upload_object with force=true onto an existing object is delete-then-put:
\* the call, run to its end, leaves the object n holding the local file's content;
\* seen when only its last request (the put) is still to come, n is absent: another
\* thread's object_exists(B, n) answers False; and n is absent in exactly the states
\* seen after the delete request.
C17_MomentaryAbsence ==
  ObservedUpload =>
    /\ Whole.exc = NoExc
    /\ B \in DOMAIN Whole.w[T]
    /\ N \in DOMAIN Whole.w[T][B]
    /\ Whole.w[T][B][N] = pre.files[call.args.path]
    /\ Len(call.trace) = Len(Invoke([PreW EXCEPT !.sched = Uncut], call.op, call.args).w.trace) - 1
         => ~HasObject
    /\ HasObject <=> ~Deleted
    /\ ~HasObject => object_exists(W, B, N).exc = NoExc /\ object_exists(W, B, N).val = VFalse

\* the upload is seen between its delete and its put: the object that was there
\* before the call, and is there after it, is absent
C17_Witness ==
  /\ ObservedUpload
  /\ Deleted
  /\ ~HasObject
  /\ object_exists(W, B, N).val = VFalse
  /\ N \in DOMAIN Whole.w[T][B]

----------------------------------------------------------------------------
(* C18 *)

\* C18: every request that one call of archive_bucket, remove_bucket, empty_storage
\* or upload_tokenizer_data makes goes to the backend the target resolved to when
\* the call began, also when S3_TARGET is changed while the call runs.
C18_OneBackend ==
  (call.op \in {"archive_bucket", "remove_bucket", "empty_storage",
                "upload_tokenizer_data"} /\ call.sched.on) =>
    \A i \in 1..Len(call.trace) : call.trace[i].t = T

----------------------------------------------------------------------------
(* __get_client of both adapters, access by access to what the threads of    *)
(* one process share: the module variable __client and os.environ.  A        *)
(* thread's pc is the access it is about to make; between two accesses any   *)
(* other thread may run, and the host may change the environment.            *)

NotConnected == "Exception: S3 not connected"

\* the adapter's module variable __client
Client(a) == IF a = "minio" THEN minio_client ELSE aws_client

\* the variables the adapter tests before it constructs its client, in the order of
\* the test
Required(a) ==
  IF a = "minio" THEN <<"S3_ENDPOINT_LOCAL", "S3_ACCESS_KEY", "S3_SECRET_KEY">>
  ELSE <<"S3_AWS_ENDPOINT", "S3_AWS_REGION", "S3_AWS_ACCESS_KEY", "S3_AWS_SECRET_KEY">>

\* the variables the client is constructed with: endpoint, access key, secret key
Arguments(a) ==
  IF a = "minio" THEN <<"S3_ENDPOINT_LOCAL", "S3_ACCESS_KEY", "S3_SECRET_KEY">>
  ELSE <<"S3_AWS_ENDPOINT", "S3_AWS_ACCESS_KEY", "S3_AWS_SECRET_KEY">>

Inside(th) ==
  threads[th].pc \in {"test", "init", "getenv", "argument", "construct", "assign", "retest",
                       "return"}

At(th, pc) == threads[th].pc = pc

Goes(th, rec) ==
  /\ threads' = [threads EXCEPT ![th] = rec]
  /\ UNCHANGED <<minio, aws, files, call, pre>>

\* an adapter function calls __get_client()
CallGetClient(th) ==
  \E a \in Adapters :
    /\ ~Inside(th)
    /\ call.op = "idle"
    /\ Goes(th, [Out EXCEPT !.pc = "test", !.adapter = a])
    /\ raced' = [raced EXCEPT ![a] =
                   @ \/ (Client(a) = 0
                         /\ \E o \in Threads \ {th} : Inside(o) /\ threads[o].adapter = a)]
    /\ UNCHANGED <<env, minio_client, aws_client, made>>

\* TestClient, were it to find no client whatever __client holds
TestClient_blind(th) ==
  /\ At(th, "test")
  /\ Goes(th, [threads[th] EXCEPT
                 !.found = Client(threads[th].adapter),
                 !.i = IF threads[th].adapter = "aws" THEN 0 ELSE 1,
                 !.pc = IF threads[th].adapter = "aws" THEN "init" ELSE "getenv"])
  /\ UNCHANGED <<env, minio_client, aws_client, made, raced>>

\* if not __client:
TestClient(th) ==
  /\ At(th, "test")
  /\ Goes(th, [threads[th] EXCEPT
                 !.found = Client(threads[th].adapter),
                 !.i = IF Client(threads[th].adapter) = 0 /\ threads[th].adapter = "minio"
                       THEN 1 ELSE 0,
                 !.pc = IF Client(threads[th].adapter) # 0 THEN "retest"
                        ELSE IF threads[th].adapter = "aws" THEN "init"
                        ELSE "getenv"])
  /\ UNCHANGED <<env, minio_client, aws_client, made, raced>>

\* aws.py __init_client(): if __client and not force: return.  The os.getenv("S3_TARGET")
\* that follows is printed and decides nothing.
InitClient(th) ==
  /\ At(th, "init")
  /\ Goes(th, IF Client(threads[th].adapter) # 0
              THEN [threads[th] EXCEPT !.pc = "retest"]
              ELSE [threads[th] EXCEPT !.pc = "getenv", !.i = 1])
  /\ UNCHANGED <<env, minio_client, aws_client, made, raced>>

\* one os.getenv(...) of the test os.getenv(...) and ... and os.getenv(...)
Getenv(th) ==
  LET a == threads[th].adapter
      i == threads[th].i
  IN /\ At(th, "getenv")
     /\ Goes(th, IF ~Truthy(getenv(W, Required(a)[i]))
                 THEN [threads[th] EXCEPT !.pc = "retest", !.i = 0]
                 ELSE IF i < Len(Required(a)) THEN [threads[th] EXCEPT !.i = i + 1]
                 ELSE [threads[th] EXCEPT !.pc = "argument", !.i = 1,
                                          !.configured = TRUE])
     /\ UNCHANGED <<env, minio_client, aws_client, made, raced>>

\* one os.getenv(...) of the arguments of Minio(...): the variables are read anew,
\* one by one
GetenvArgument(th) ==
  LET a == threads[th].adapter
      i == threads[th].i
  IN /\ At(th, "argument")
     /\ Goes(th, [threads[th] EXCEPT
                    !.arguments = Append(@, getenv(W, Arguments(a)[i])),
                    !.i = IF i < Len(Arguments(a)) THEN i + 1 ELSE 0,
                    !.pc = IF i < Len(Arguments(a)) THEN "argument" ELSE "construct"])
     /\ UNCHANGED <<env, minio_client, aws_client, made, raced>>

\* Minio(endpoint, access_key, secret_key): the constructor raises TypeError on an
\* endpoint that is None, ValueError on an access key with no secret key, and
\* without an access key makes an anonymous client; the instance is not yet assigned
Construct(th) ==
  LET a == threads[th].adapter
      endpoint == threads[th].arguments[1]
      access_key == threads[th].arguments[2]
      secret_key == threads[th].arguments[3]
  IN /\ At(th, "construct")
     /\ IF endpoint = VNone
        THEN /\ Goes(th, [threads[th] EXCEPT !.pc = "returned", !.exc = "TypeError",
                                             !.arguments = <<>>])
             /\ made' = made
        ELSE IF Truthy(access_key) /\ ~Truthy(secret_key)
        THEN /\ Goes(th, [threads[th] EXCEPT !.pc = "returned", !.exc = "ValueError",
                                             !.arguments = <<>>])
             /\ made' = made
        ELSE /\ Goes(th, [threads[th] EXCEPT !.inst = made[a] + 1, !.pc = "assign",
                                             !.arguments = <<>>])
             /\ made' = [made EXCEPT ![a] = @ + 1]
     /\ UNCHANGED <<env, minio_client, aws_client, raced>>

\* __client = <the instance>
Assign(th) ==
  LET a == threads[th].adapter
  IN /\ At(th, "assign")
     /\ Goes(th, [threads[th] EXCEPT !.pc = "retest"])
     /\ minio_client' = IF a = "minio" THEN threads[th].inst ELSE minio_client
     /\ aws_client' = IF a = "aws" THEN threads[th].inst ELSE aws_client
     /\ UNCHANGED <<env, made, raced>>

\* if not __client: raise Exception("S3 not connected")
Retest(th) ==
  /\ At(th, "retest")
  /\ Goes(th, IF Client(threads[th].adapter) = 0
              THEN [threads[th] EXCEPT !.pc = "returned", !.exc = NotConnected]
              ELSE [threads[th] EXCEPT !.pc = "return"])
  /\ UNCHANGED <<env, minio_client, aws_client, made, raced>>

\* return __client
ReturnClient(th) ==
  /\ At(th, "return")
  /\ Goes(th, [threads[th] EXCEPT !.pc = "returned",
                                  !.val = Client(threads[th].adapter)])
  /\ UNCHANGED <<env, minio_client, aws_client, made, raced>>

MaxUnset == 2

\* the host sets, or unsets, a variable an adapter reads, at any moment; at most
\* MaxUnset of these variables are unset at a time
Setenv ==
  \E a \in Adapters : \E k \in 1..Len(Required(a)) : \E present \in BOOLEAN :
    LET n == Required(a)[k]
    IN /\ call.op = "idle"
       /\ env' = IF present
                 THEN [m \in DOMAIN env \cup {n} |->
                         IF m = n THEN ConnectionEnv[n] ELSE env[m]]
                 ELSE [m \in DOMAIN env \ {n} |-> env[m]]
       /\ env' # env
       /\ Cardinality(DOMAIN ConnectionEnv \ DOMAIN env') <= MaxUnset
       /\ UNCHANGED <<minio, aws, files, minio_client, aws_client, made, call, pre,
                      threads, raced>>

NextClient ==
  \/ \E th \in Threads : CallGetClient(th)
  \/ \E th \in Threads : TestClient(th)
  \/ \E th \in Threads : InitClient(th)
  \/ \E th \in Threads : Getenv(th)
  \/ \E th \in Threads : GetenvArgument(th)
  \/ \E th \in Threads : Construct(th)
  \/ \E th \in Threads : Assign(th)
  \/ \E th \in Threads : Retest(th)
  \/ \E th \in Threads : ReturnClient(th)
  \/ Setenv

\* S3_TARGET, which __get_client does not decide on, is left unset
InitUnset == Init /\ "S3_TARGET" \notin DOMAIN env

SpecClient == InitUnset /\ [][NextClient]_vars

\* the call of __get_client that thread th made has returned or raised
Left(th, a) == At(th, "returned") /\ threads[th].adapter = a

\* what holds of the calls of adapter a that have ended
OneClient(a) ==
  /\ made[a] <= 1
  /\ Client(a) \in {0, made[a]}
  /\ \A th \in Threads :
       Left(th, a) =>
         /\ threads[th].exc = NoExc => threads[th].val = 1
         /\ threads[th].found # 0 =>
              threads[th].inst = 0 /\ threads[th].val = threads[th].found
         /\ (threads[th].found = 0 /\ ~threads[th].configured) =>
              threads[th].exc = NotConnected /\ threads[th].inst = 0
         /\ threads[th].exc # NoExc =>
              threads[th].inst = 0 /\ threads[th].found = 0

\* C16 as stated: each adapter constructs its client at most once and every later call
\* reuses that instance, over every interleaving of adapter calls, first use by two
\* threads at the same time included; a call made while the configuration is absent
\* raises "S3 not connected" and caches nothing.
C16_AsClaimed == \A a \in Adapters : OneClient(a)

\* C16: as long as no call of an adapter has begun while another call of it was inside
\* __get_client and no client was cached, the adapter has constructed at most one
\* client, every call that found it returned that same instance and constructed
\* none, and a call that found no client and found a variable of the configuration
\* absent raised "S3 not connected" and constructed nothing.
C16_SerialFirstUse == \A a \in Adapters : ~raced[a] => OneClient(a)

\* with first use not raced, one thread was returned the instance a call before it
\* had cached, and the other got "S3 not connected" from the other adapter, which
\* holds no client
C16_Witness ==
  \E a \in Adapters : \E b \in Adapters \ {a} : \E t1 \in Threads : \E t2 \in Threads \ {t1} :
    /\ ~raced[a] /\ ~raced[b]
    /\ Left(t1, a) /\ threads[t1].found = 1 /\ threads[t1].val = 1 /\ made[a] = 1
    /\ Left(t2, b) /\ threads[t2].exc = NotConnected /\ Client(b) = 0 /\ made[b] = 0

============================================================================
